---- MODULE Spec2Model ----
(***************************************************************************)
(* A model of the aggregation executor node (nodeAgg.c): the AggState of   *)
(* one Agg plan node, driven by repeated ExecAgg calls.  One state of the  *)
(* model is the AggState between two steps of ExecAgg; `pc` is the place   *)
(* inside ExecAgg where control is ("idle" between two calls).             *)
(***************************************************************************)
EXTENDS Integers, Sequences, FiniteSets, Bags, TLC

VARIABLES
    plan,       \* the Agg plan node, its aggregates' catalog rows, the GUCs, the child's rows
    pc,         \* position of control inside ExecAgg
    agg,        \* scalar fields of AggState
    pergroup,   \* aggstate->pergroup: per grouping set, per transition state
    sortst,     \* child cursor, sort_in / sort_out, per-aggregate sortstates
    perhash,    \* aggstate->perhash[i].hashtable and .hashiter
    spill,      \* every SpillSet and SpillFile allocated so far
    out,        \* what ExecAgg has returned so far, in order
    calls,      \* counts of the fmgr calls made (transfn, combinefn, ...)
    rd_state,   \* aggstate->state: the ReDistributeState in shared memory ("NULL" outside a parallel worker)
    tmpfiles,   \* the temporary files behind aggstate->file of every worker
    worker      \* every parallel worker's private state inside agg_fill_hash_table

vars == <<plan, pc, agg, pergroup, sortst, perhash, spill, out, calls,
          rd_state, tmpfiles, worker>>

(***************************************************************************)
(* Bounds of the model.                                                    *)
(***************************************************************************)
MaxRows == 3        \* rows the child produces, at most
NumKeys == 2        \* values of a grouping column: 1..NumKeys
NumVals == 2        \* non-null values of the argument column v: 1..NumVals
MaxEntries == 2     \* hybrid table capacities tried: 1..MaxEntries
MaxBatches == 2     \* batch counts tried: 1..MaxBatches
MaxEosCalls == 2    \* ExecAgg calls made after the first end-of-stream
NumChunks == 3      \* partial aggregations below a combining node
MaxCalls == 20      \* ExecAgg calls in one execution, at most

(***************************************************************************)
(* Datums.  A Datum travels with its null flag; a null Datum is (Datum) 0. *)
(***************************************************************************)
Dat(x) == [val |-> x, isnull |-> FALSE]
NullDatum == [val |-> 0, isnull |-> TRUE]

Max2(a, b) == IF a >= b THEN a ELSE b
Min2(a, b) == IF a <= b THEN a ELSE b

RECURSIVE Pow2(_)
Pow2(n) == IF n = 0 THEN 1 ELSE 2 * Pow2(n - 1)

RECURSIVE SeqSum(_)
SeqSum(s) == IF s = <<>> THEN 0 ELSE Head(s) + SeqSum(Tail(s))

RECURSIVE SeqToBag(_)
SeqToBag(s) == IF s = <<>> THEN EmptyBag ELSE SetToBag({Head(s)}) (+) SeqToBag(Tail(s))

(***************************************************************************)
(* The functions the aggregates of the model are made of, as fmgr calls    *)
(* them: FunctionCallInvoke passes the raw Datums and does not look at     *)
(* strictness, that is the caller's business.  a0 is arg[0] (the state),   *)
(* a1 is arg[1].                                                           *)
(***************************************************************************)
AvgZero == [N |-> 0, S |-> 0]

FunctionCallInvoke(fn, a0, a1) ==
    CASE fn = "int8inc"      -> Dat(a0.val + 1)
      [] fn = "int8inc_any"  -> Dat(a0.val + 1)
      [] fn = "int8inc_float8_float8" -> Dat(a0.val + 1)
      [] fn = "int8pl"       -> Dat(a0.val + a1.val)
      [] fn = "int4pl"       -> Dat(a0.val + a1.val)
      [] fn = "int4larger"   -> Dat(Max2(a0.val, a1.val))
      \* a user's strict addition that yields NULL beyond its range
      [] fn = "int4pl_capped" ->
            IF a0.val + a1.val > 2 THEN NullDatum ELSE Dat(a0.val + a1.val)
      [] fn = "int4smaller"  -> Dat(Min2(a0.val, a1.val))
      [] fn = "int4_sum"     ->
            IF a0.isnull
            THEN (IF a1.isnull THEN NullDatum ELSE Dat(a1.val))
            ELSE (IF a1.isnull THEN a0 ELSE Dat(a0.val + a1.val))
      \* the text built so far, a digit per value appended
      [] fn = "string_agg_transfn" ->
            IF a1.isnull THEN a0
            ELSE IF a0.isnull THEN Dat(a1.val)
            ELSE Dat(10 * a0.val + a1.val)
      [] fn = "string_agg_finalfn" -> a0
      [] fn = "int8_avg_accum" ->
            LET st == IF a0.isnull THEN AvgZero ELSE a0.val
            IN  IF a1.isnull THEN Dat(st)
                ELSE Dat([N |-> st.N + 1, S |-> st.S + a1.val])
      [] fn = "int8_avg_combine" ->
            IF a1.isnull THEN a0
            ELSE IF a0.isnull THEN Dat(a1.val)
            ELSE Dat([N |-> a0.val.N + a1.val.N, S |-> a0.val.S + a1.val.S])
      [] fn = "int8_avg_serialize"   -> Dat(<<a0.val.N, a0.val.S>>)
      [] fn = "int8_avg_deserialize" -> Dat([N |-> a0.val[1], S |-> a0.val[2]])
      [] fn = "numeric_poly_avg" ->
            IF a0.isnull \/ a0.val.N = 0 THEN NullDatum
            ELSE Dat(a0.val.S \div a0.val.N)
      [] fn = "numeric_poly_sum" ->
            IF a0.isnull \/ a0.val.N = 0 THEN NullDatum
            ELSE Dat(a0.val.S)
      \* int8_avg_combine after ALTER FUNCTION ... STRICT
      [] fn = "int8_avg_combine_strict" ->
            Dat([N |-> a0.val.N + a1.val.N, S |-> a0.val.S + a1.val.S])

FnStrict(fn) == fn \in {"int8inc_any", "int8inc_float8_float8", "int8pl", "int4pl", "int4larger", "int4smaller",
                        "int8_avg_serialize", "int8_avg_deserialize",
                        "int8_avg_combine_strict", "int4pl_capped"}

(***************************************************************************)
(* pg_aggregate rows.  arg is the input column the call aggregates         *)
(* ("star": no argument).  "" stands for InvalidOid.                       *)
(***************************************************************************)
AggForm(name) ==
    CASE name = "count_star" ->
            [aggfnoid |-> name, aggtransfn |-> "int8inc", aggcombinefn |-> "int8pl",
             aggfinalfn |-> "", aggserialfn |-> "", aggdeserialfn |-> "",
             aggtranstype |-> "int8", agginitval |-> Dat(0), arg |-> "star"]
      [] name = "count" ->
            [aggfnoid |-> name, aggtransfn |-> "int8inc_any", aggcombinefn |-> "int8pl",
             aggfinalfn |-> "", aggserialfn |-> "", aggdeserialfn |-> "",
             aggtranstype |-> "int8", agginitval |-> Dat(0), arg |-> "v"]
      [] name = "sum" ->
            [aggfnoid |-> name, aggtransfn |-> "int4_sum", aggcombinefn |-> "int8pl",
             aggfinalfn |-> "", aggserialfn |-> "", aggdeserialfn |-> "",
             aggtranstype |-> "int8", agginitval |-> NullDatum, arg |-> "v"]
      \* a user-defined sum over int4_sum, created without a combine function
      [] name = "sum_nocomb" ->
            [aggfnoid |-> name, aggtransfn |-> "int4_sum", aggcombinefn |-> "",
             aggfinalfn |-> "", aggserialfn |-> "", aggdeserialfn |-> "",
             aggtranstype |-> "int8", agginitval |-> NullDatum, arg |-> "v"]
      [] name = "summ" ->
            [aggfnoid |-> name, aggtransfn |-> "int4_sum", aggcombinefn |-> "int8pl",
             aggfinalfn |-> "", aggserialfn |-> "", aggdeserialfn |-> "",
             aggtranstype |-> "int8", agginitval |-> NullDatum, arg |-> "m"]
      [] name = "max" ->
            [aggfnoid |-> name, aggtransfn |-> "int4larger", aggcombinefn |-> "int4larger",
             aggfinalfn |-> "", aggserialfn |-> "", aggdeserialfn |-> "",
             aggtranstype |-> "int4", agginitval |-> NullDatum, arg |-> "v"]
      [] name = "min" ->
            [aggfnoid |-> name, aggtransfn |-> "int4smaller", aggcombinefn |-> "int4smaller",
             aggfinalfn |-> "", aggserialfn |-> "", aggdeserialfn |-> "",
             aggtranstype |-> "int4", agginitval |-> NullDatum, arg |-> "v"]
      [] name = "plsum" ->
            [aggfnoid |-> name, aggtransfn |-> "int4pl", aggcombinefn |-> "int4pl",
             aggfinalfn |-> "", aggserialfn |-> "", aggdeserialfn |-> "",
             aggtranstype |-> "int4", agginitval |-> NullDatum, arg |-> "v"]
      [] name = "capsum" ->
            [aggfnoid |-> name, aggtransfn |-> "int4pl_capped",
             aggcombinefn |-> "int4pl_capped",
             aggfinalfn |-> "", aggserialfn |-> "", aggdeserialfn |-> "",
             aggtranstype |-> "int4", agginitval |-> NullDatum, arg |-> "v"]
      [] name = "regr_count" ->
            [aggfnoid |-> name, aggtransfn |-> "int8inc_float8_float8",
             aggcombinefn |-> "int8pl",
             aggfinalfn |-> "", aggserialfn |-> "", aggdeserialfn |-> "",
             aggtranstype |-> "int8", agginitval |-> Dat(0), arg |-> "vk"]
      [] name = "string_agg" ->
            [aggfnoid |-> name, aggtransfn |-> "string_agg_transfn", aggcombinefn |-> "",
             aggfinalfn |-> "string_agg_finalfn", aggserialfn |-> "", aggdeserialfn |-> "",
             aggtranstype |-> "internal", agginitval |-> NullDatum, arg |-> "vk"]
      [] name = "avg" ->
            [aggfnoid |-> name, aggtransfn |-> "int8_avg_accum",
             aggcombinefn |-> "int8_avg_combine", aggfinalfn |-> "numeric_poly_avg",
             aggserialfn |-> "int8_avg_serialize", aggdeserialfn |-> "int8_avg_deserialize",
             aggtranstype |-> "internal", agginitval |-> NullDatum, arg |-> "v"]
      \* sum(int8): the transition state of avg, another final function
      [] name = "sum8" ->
            [aggfnoid |-> name, aggtransfn |-> "int8_avg_accum",
             aggcombinefn |-> "int8_avg_combine", aggfinalfn |-> "numeric_poly_sum",
             aggserialfn |-> "int8_avg_serialize", aggdeserialfn |-> "int8_avg_deserialize",
             aggtranstype |-> "internal", agginitval |-> NullDatum, arg |-> "v"]
      \* an aggregate over an INTERNAL state whose combine function has been
      \* made strict since CREATE AGGREGATE
      [] name = "avg_strict" ->
            [aggfnoid |-> name, aggtransfn |-> "int8_avg_accum",
             aggcombinefn |-> "int8_avg_combine_strict", aggfinalfn |-> "numeric_poly_avg",
             aggserialfn |-> "int8_avg_serialize", aggdeserialfn |-> "int8_avg_deserialize",
             aggtranstype |-> "internal", agginitval |-> NullDatum, arg |-> "v"]

(***************************************************************************)
(* Input rows: two grouping columns k[1], k[2] and two argument columns v  *)
(* and m.                                                                  *)
(***************************************************************************)
ArgsOf(row, arg) ==
    CASE arg = "star" -> <<>>
      [] arg = "v"    -> <<row.v>>
      [] arg = "m"    -> <<row.m>>
      [] arg = "vm"   -> <<row.v, row.m>>
      [] arg = "vk"   -> <<row.v, Dat(row.k[1])>>
      \* m / (k2 - 1), for a row it can be computed for
      [] arg = "mdiv" -> <<IF row.k[2] = 1 THEN NullDatum
                           ELSE Dat(row.m.val \div (row.k[2] - 1))>>
      \* a column of partial states, the argument of a combining call
      [] arg = "st1"  -> <<row.st[1]>>
      [] arg = "st2"  -> <<row.st[2]>>
      [] arg = "st3"  -> <<row.st[3]>>
      [] arg = "st4"  -> <<row.st[4]>>

\* the argument expression raises "division by zero" on the row
ArgThrows(row, arg) == arg = "mdiv" /\ row.k[2] = 1

KeyOf(row, cols) == [i \in 1..Len(cols) |-> row.k[cols[i]]]

(***************************************************************************)
(* The split modes (the DO_AGGSPLIT_ tests of nodes.h).                    *)
(***************************************************************************)
AGGSPLIT_SIMPLE == [combine |-> FALSE, skipfinal |-> FALSE,
                    serialize |-> FALSE, deserialize |-> FALSE]
AGGSPLIT_INITIAL_SERIAL == [combine |-> FALSE, skipfinal |-> TRUE,
                            serialize |-> TRUE, deserialize |-> FALSE]
AGGSPLIT_FINAL_DESERIAL == [combine |-> TRUE, skipfinal |-> FALSE,
                            serialize |-> FALSE, deserialize |-> TRUE]

(***************************************************************************)
(* ExecInitAgg's per-aggregate set-up: the AggStatePerTrans and            *)
(* AggStatePerAgg of one Aggref.                                           *)
(***************************************************************************)
build_pertrans_for_aggref(p, aggref) ==
    LET form == AggForm(aggref.aggfnoid)
        transfn_oid == IF p.aggsplit.combine THEN form.aggcombinefn ELSE form.aggtransfn
        internal == form.aggtranstype = "internal"
        numArgs == Len(ArgsOf([k |-> <<0, 0>>, v |-> NullDatum, m |-> NullDatum,
                               st |-> <<NullDatum, NullDatum, NullDatum, NullDatum>>],
                              aggref.arg))
        sorted == aggref.aggdistinct \/ aggref.aggorder
    IN  [aggfnoid |-> aggref.aggfnoid,
         arg |-> aggref.arg,
         numInputs |-> numArgs,
         numTransInputs |-> numArgs,
         transfn_oid |-> transfn_oid,
         transfn_strict |-> FnStrict(transfn_oid),
         serialfn_oid |-> IF internal /\ p.aggsplit.serialize THEN form.aggserialfn ELSE "",
         deserialfn_oid |-> IF internal /\ p.aggsplit.deserialize
                            THEN form.aggdeserialfn ELSE "",
         aggtranstype |-> form.aggtranstype,
         aggfilter |-> aggref.aggfilter,
         numSortCols |-> IF sorted THEN numArgs ELSE 0,
         numDistinctCols |-> IF aggref.aggdistinct THEN numArgs ELSE 0,
         initValue |-> form.agginitval.val,
         initValueIsNull |-> form.agginitval.isnull,
         \* the hybrid hash aggregation's own combine / serialize / deserialize
         combfn |-> IF p.g_hybrid_hash_agg THEN form.aggcombinefn ELSE "",
         combfn_strict |-> p.g_hybrid_hash_agg /\ FnStrict(form.aggcombinefn),
         serial_func_id |-> IF p.g_hybrid_hash_agg /\ internal
                               /\ form.aggserialfn # "" /\ form.aggdeserialfn # ""
                            THEN form.aggserialfn ELSE "",
         deserial_func_id |-> IF p.g_hybrid_hash_agg /\ internal
                                 /\ form.aggserialfn # "" /\ form.aggdeserialfn # ""
                              THEN form.aggdeserialfn ELSE ""]

build_peragg(p, aggref, i) ==
    [aggfnoid |-> aggref.aggfnoid,
     aggref |-> aggref,
     transno |-> i,
     finalfn_oid |-> IF p.aggsplit.skipfinal THEN ""
                     ELSE AggForm(aggref.aggfnoid).aggfinalfn]

(***************************************************************************)
(* initialize_aggregate: (re)set one per-group state to the initial value. *)
(***************************************************************************)
initialize_aggregate(pertrans) ==
    [transValue |-> pertrans.initValue,
     transValueIsNull |-> pertrans.initValueIsNull,
     noTransValue |-> pertrans.initValueIsNull]

(***************************************************************************)
(* advance_transition_function: one input (args, already loaded into       *)
(* fcinfo->arg[1] onwards) into one per-group state.  Returns the state and the  *)
(* call counters.                                                          *)
(***************************************************************************)
StateDatum(pg) == [val |-> pg.transValue, isnull |-> pg.transValueIsNull]
Arg1(args) == IF Len(args) >= 1 THEN args[1] ELSE NullDatum

\* the first non-null input run through the function against the raw state
advance_transition_function_calling(pertrans, pergroupstate, args) ==
    IF pertrans.transfn_strict
       /\ \E i \in 1..pertrans.numTransInputs : args[i].isnull
    THEN [pg |-> pergroupstate, called |-> FALSE]
    ELSE LET newVal == FunctionCallInvoke(pertrans.transfn_oid,
                                          Dat(pergroupstate.transValue), Arg1(args))
         IN  [pg |-> [transValue |-> newVal.val, transValueIsNull |-> newVal.isnull,
                      noTransValue |-> FALSE],
              called |-> TRUE]

advance_transition_function(pertrans, pergroupstate, args) ==
    IF pertrans.transfn_strict
       /\ \E i \in 1..pertrans.numTransInputs : args[i].isnull
    THEN [pg |-> pergroupstate, called |-> FALSE]
    ELSE IF pertrans.transfn_strict /\ pergroupstate.noTransValue
    THEN [pg |-> [transValue |-> Arg1(args).val, transValueIsNull |-> FALSE,
                  noTransValue |-> FALSE],
          called |-> FALSE]
    ELSE IF pertrans.transfn_strict /\ pergroupstate.transValueIsNull
    THEN [pg |-> pergroupstate, called |-> FALSE]
    ELSE LET newVal == FunctionCallInvoke(pertrans.transfn_oid,
                                          StateDatum(pergroupstate), Arg1(args))
         IN  [pg |-> [transValue |-> newVal.val, transValueIsNull |-> newVal.isnull,
                      noTransValue |-> pergroupstate.noTransValue],
              called |-> TRUE]

(***************************************************************************)
(* advance_combine_function (DO_AGGSPLIT_COMBINE: transfn is the combine   *)
(* function, arg1 is the incoming state).                                  *)
(***************************************************************************)
\* the first state copied in with noTransValue left set
advance_combine_function_reseeding(pertrans, pergroupstate, arg1) ==
    IF pertrans.transfn_strict /\ arg1.isnull
    THEN [pg |-> pergroupstate, called |-> FALSE]
    ELSE IF pertrans.transfn_strict /\ pergroupstate.noTransValue
    THEN [pg |-> [transValue |-> arg1.val, transValueIsNull |-> FALSE,
                  noTransValue |-> TRUE],
          called |-> FALSE]
    ELSE LET newVal == FunctionCallInvoke(pertrans.transfn_oid,
                                          StateDatum(pergroupstate), arg1)
         IN  [pg |-> [transValue |-> newVal.val, transValueIsNull |-> newVal.isnull,
                      noTransValue |-> pergroupstate.noTransValue],
              called |-> TRUE]

advance_combine_function(pertrans, pergroupstate, arg1) ==
    IF pertrans.transfn_strict /\ arg1.isnull
    THEN [pg |-> pergroupstate, called |-> FALSE]
    ELSE IF pertrans.transfn_strict /\ pergroupstate.noTransValue
    THEN [pg |-> [transValue |-> arg1.val, transValueIsNull |-> FALSE,
                  noTransValue |-> FALSE],
          called |-> FALSE]
    ELSE LET newVal == FunctionCallInvoke(pertrans.transfn_oid,
                                          StateDatum(pergroupstate), arg1)
         IN  [pg |-> [transValue |-> newVal.val, transValueIsNull |-> newVal.isnull,
                      noTransValue |-> pergroupstate.noTransValue],
              called |-> TRUE]

(***************************************************************************)
(* combine_transition: the hybrid reload's merge of a spilled state (arg1) *)
(* into the state in memory.  The noTransValue branch of                   *)
(* advance_combine_function is compiled out here (#if 0).  With combfn     *)
(* never set up (InvalidOid) the call goes through a zeroed FmgrInfo.      *)
(***************************************************************************)
combine_transition(pertrans, pergroupstate, arg1) ==
    IF pertrans.combfn_strict /\ arg1.isnull
    THEN [pg |-> pergroupstate, called |-> FALSE, crash |-> FALSE]
    ELSE IF pertrans.combfn = ""
    THEN [pg |-> pergroupstate, called |-> TRUE, crash |-> TRUE]
    ELSE LET newVal == FunctionCallInvoke(pertrans.combfn,
                                          StateDatum(pergroupstate), arg1)
         IN  [pg |-> [transValue |-> newVal.val, transValueIsNull |-> newVal.isnull,
                      noTransValue |-> pergroupstate.noTransValue],
              called |-> TRUE, crash |-> FALSE]

(***************************************************************************)
(* The plan.  An Agg node is                                               *)
(*   [aggstrategy, grpColIdx, groupingSets, hybrid, entrySize]             *)
(* where groupingSets lists the length of each grouping set (a prefix of   *)
(* grpColIdx; <<>> when the node has no grouping sets).  plan.node is the  *)
(* top node, plan.chain the further nodes of a grouping-sets plan.         *)
(***************************************************************************)
HashNodes(p) ==
    (IF p.node.aggstrategy \in {"AGG_HASHED", "AGG_MIXED"} THEN <<p.node>> ELSE <<>>)
    \o SelectSeq(p.chain, LAMBDA n : n.aggstrategy = "AGG_HASHED")

SortNodes(p) ==
    (IF p.node.aggstrategy \in {"AGG_PLAIN", "AGG_SORTED"} THEN <<p.node>> ELSE <<>>)
    \o SelectSeq(p.chain, LAMBDA n : n.aggstrategy # "AGG_HASHED")

ColSet(cols, n) == {cols[j] : j \in 1..n}

(***************************************************************************)
(* The hash table of execGrouping.c as nodeAgg.c uses it: entries are kept *)
(* in insertion order, a hybrid table refuses a new key once it holds      *)
(* nentries entries.                                                       *)
(***************************************************************************)
TupleHashTableHash(key) ==
    IF Len(key) = 0 THEN 0
    ELSE IF Len(key) = 1 THEN key[1]
    ELSE 3 * key[1] + key[2]

FindEntry(entries, key) ==
    LET hits == {i \in 1..Len(entries) : entries[i].firstTuple = key}
    IN  IF hits = {} THEN 0 ELSE CHOOSE i \in hits : TRUE

LookupTupleHashEntry(hashtable, hash, key) ==
    LET pos == FindEntry(hashtable.entries, key)
    IN  IF pos # 0
        THEN [hashtable |-> hashtable, idx |-> pos, isnew |-> FALSE]
        ELSE IF hashtable.hybrid /\ Len(hashtable.entries) >= hashtable.nentries
        THEN [hashtable |-> hashtable, idx |-> 0, isnew |-> FALSE]
        ELSE [hashtable |-> [hashtable EXCEPT !.entries =
                                Append(@, [hash |-> hash, firstTuple |-> key,
                                           additional |-> <<>>])],
              idx |-> Len(hashtable.entries) + 1, isnew |-> TRUE]

(***************************************************************************)
(* OptimizeHybridHashtableSize and build_hash_table.                       *)
(***************************************************************************)
OptimizeHybridHashtableSize(hashtable, entrySize, p) ==
    LET max_mem == p.work_mem * 1024
    IN  [hashtable EXCEPT !.nbatches = p.g_default_hashagg_nbatches,
                          !.spilled = FALSE,
                          !.spill_set = 0,
                          !.nentries = max_mem \div entrySize,
                          !.hybrid = TRUE]

BuildTupleHashTable ==
    [entries |-> <<>>, hybrid |-> FALSE, spilled |-> FALSE, spill_set |-> 0,
     nbatches |-> 0, nentries |-> 0]

build_hash_table(p) ==
    [i \in 1..Len(HashNodes(p)) |->
        LET aggnode == HashNodes(p)[i]
        IN  [aggnode |-> aggnode,
             numCols |-> Len(aggnode.grpColIdx),
             hashiter |-> [cur |-> 1],
             hashtable |-> IF aggnode.hybrid
                           THEN OptimizeHybridHashtableSize(BuildTupleHashTable,
                                                            aggnode.entrySize, p)
                           ELSE BuildTupleHashTable]]

(***************************************************************************)
(* ExecInitAgg: the phases, the hash tables, the per-aggregate data and    *)
(* the first phase.                                                        *)
(***************************************************************************)
BuildPhases(p) ==
    [i \in 0..Len(SortNodes(p)) |->
        IF i = 0
        THEN [numsets |-> Len(HashNodes(p)),
              gset_lengths |-> [j \in 1..Len(HashNodes(p)) |->
                                    Len(HashNodes(p)[j].grpColIdx)],
              grouped_cols |-> [j \in 1..Len(HashNodes(p)) |->
                                    ColSet(HashNodes(p)[j].grpColIdx,
                                           Len(HashNodes(p)[j].grpColIdx))],
              aggnode |-> p.node,
              aggstrategy |-> IF HashNodes(p) = <<>> THEN "AGG_PLAIN"
                              ELSE p.node.aggstrategy,
              sortnode |-> <<>>]
        ELSE LET aggnode == SortNodes(p)[i]
             IN  [numsets |-> Len(aggnode.groupingSets),
                  gset_lengths |-> aggnode.groupingSets,
                  grouped_cols |-> [j \in 1..Len(aggnode.groupingSets) |->
                                        ColSet(aggnode.grpColIdx, aggnode.groupingSets[j])],
                  aggnode |-> aggnode,
                  aggstrategy |-> aggnode.aggstrategy,
                  sortnode |-> aggnode.grpColIdx]]

MaxSets(p) ==
    LET lens == {Len(p.node.groupingSets)} \cup
                {Len(p.chain[i].groupingSets) : i \in 1..Len(p.chain)}
    IN  Max2(1, CHOOSE n \in lens : \A k \in lens : k <= n)

\* the hybrid set-up of ExecInitAgg switches every table back to plain
\* hashing when an aggregate cannot be merged or (de)serialized
HybridUnusable(p, aggref) ==
    LET form == AggForm(aggref.aggfnoid)
    IN  p.g_hybrid_hash_agg
        /\ (form.aggcombinefn = ""
            \/ (form.aggtranstype = "internal"
                /\ (form.aggserialfn = "" \/ form.aggdeserialfn = "")))

\* the catalog checks made for an Aggref that gets a per-agg struct of its
\* own ("the planner messed up")
PlannerError(p, aggref) ==
    LET form == AggForm(aggref.aggfnoid)
        internal == form.aggtranstype = "internal"
    IN  IF p.aggsplit.combine /\ form.aggcombinefn = ""
        THEN "combinefn not set for aggregate function"
        ELSE IF internal /\ p.aggsplit.serialize /\ form.aggserialfn = ""
        THEN "serialfunc not provided for serialization aggregation"
        ELSE IF internal /\ p.aggsplit.deserialize /\ form.aggdeserialfn = ""
        THEN "deserialfunc not provided for deserialization aggregation"
        ELSE ""

\* build_pertrans_for_aggref's check in combine mode, where the transition
\* function is the combine function: it must not be strict over INTERNAL
build_pertrans_for_aggref_error(p, pertrans) ==
    IF p.aggsplit.combine /\ pertrans.transfn_strict
       /\ pertrans.aggtranstype = "internal"
    THEN "combine function for aggregate must be declared as STRICT"
    ELSE ""

\* the same check on the hybrid hash table's combine function, made when it
\* is set up for a newly built per-trans struct
InitError(p, pertrans) ==
    IF p.g_hybrid_hash_agg /\ pertrans.combfn # "" /\ pertrans.combfn_strict
       /\ pertrans.aggtranstype = "internal"
    THEN "combine function for aggregate must be declared as STRICT"
    ELSE ""

contain_volatile_functions(aggref) == aggref.volatile

(***************************************************************************)
(* find_compatible_peragg and find_compatible_pertrans.  Indexes count     *)
(* from 1 here, 0 is the code's -1.  Collations, aggvariadic, aggkind and  *)
(* direct arguments are the same for every call of the model; arg gives    *)
(* both aggstar and args, and aggtype and aggcollid follow from aggfnoid.  *)
(***************************************************************************)
\* the i-th Aggref of the node's target list.  In a combining node the
\* planner has made its argument the child's column that carries the partial
\* state of this call, the same column for identical calls.
StateCol(i) == CASE i = 1 -> "st1" [] i = 2 -> "st2" [] i = 3 -> "st3" [] i = 4 -> "st4"

NodeAggref(p, i) ==
    IF p.aggsplit.combine
    THEN [p.aggs[i] EXCEPT !.arg = StateCol(CHOOSE j \in 1..i :
                                       /\ p.aggs[j] = p.aggs[i]
                                       /\ \A k \in 1..(j - 1) : p.aggs[k] # p.aggs[i])]
    ELSE p.aggs[i]

RECURSIVE find_compatible_peragg_from(_, _, _, _)
find_compatible_peragg_from(newagg, peraggs, aggno, same_input_transnos) ==
    IF aggno > Len(peraggs)
    THEN [aggno |-> 0, same_input_transnos |-> same_input_transnos]
    ELSE LET existingRef == peraggs[aggno].aggref
         IN  IF AggForm(newagg.aggfnoid).aggtranstype
                    # AggForm(existingRef.aggfnoid).aggtranstype
                \* equal() on args and aggfilter tells an expression with a
                \* volatile function from one without
                \/ newagg.arg # existingRef.arg
                \/ newagg.volatile # existingRef.volatile
                \/ newagg.aggorder # existingRef.aggorder
                \/ newagg.aggdistinct # existingRef.aggdistinct
                \/ newagg.aggfilter # existingRef.aggfilter
             THEN find_compatible_peragg_from(newagg, peraggs, aggno + 1,
                                              same_input_transnos)
             ELSE IF newagg.aggfnoid = existingRef.aggfnoid
             THEN [aggno |-> aggno, same_input_transnos |-> <<>>]
             ELSE find_compatible_peragg_from(newagg, peraggs, aggno + 1,
                      Append(same_input_transnos, peraggs[aggno].transno))

find_compatible_peragg_unshared(newagg, peraggs) ==
    [aggno |-> 0, same_input_transnos |-> <<>>]

find_compatible_peragg(newagg, peraggs) ==
    IF contain_volatile_functions(newagg)
    THEN [aggno |-> 0, same_input_transnos |-> <<>>]
    ELSE find_compatible_peragg_from(newagg, peraggs, 1, <<>>)

RECURSIVE find_compatible_pertrans(_, _, _)
find_compatible_pertrans(pertranss, new, transnos) ==
    IF transnos = <<>> THEN 0
    ELSE LET transno == Head(transnos)
             pertrans == pertranss[transno]
         IN  IF new.transfn_oid # pertrans.transfn_oid
                \/ new.aggtranstype # pertrans.aggtranstype
             THEN find_compatible_pertrans(pertranss, new, Tail(transnos))
             ELSE IF new.serialfn_oid # pertrans.serialfn_oid
                     \/ new.deserialfn_oid # pertrans.deserialfn_oid
             THEN find_compatible_pertrans(pertranss, new, Tail(transnos))
             ELSE IF new.initValueIsNull /\ pertrans.initValueIsNull
             THEN transno
             ELSE IF ~new.initValueIsNull /\ ~pertrans.initValueIsNull
                     /\ new.initValue = pertrans.initValue
             THEN transno
             ELSE find_compatible_pertrans(pertranss, new, Tail(transnos))

(***************************************************************************)
(* ExecInitAgg's loop over the Aggrefs of the target list, from the i-th   *)
(* on: aggs is each Aggref's aggno, an ERROR ends the loop.                *)
(***************************************************************************)
\* the executor's functions by name, defined below them
RECURSIVE Call(_, _)

\* the Aggref has no per-agg struct to share: it gets a per-trans struct,
\* an existing one (existing_transno) or the one built for it (new)
InitPertrans(p, i, st, aggref, new, existing_transno) ==
    Call("InitAggs",
         <<p, i + 1,
           [aggs |-> Append(st.aggs, Len(st.peragg) + 1),
            peragg |-> Append(st.peragg,
                              build_peragg(p, aggref,
                                           IF existing_transno # 0 THEN existing_transno
                                           ELSE Len(st.pertrans) + 1)),
            pertrans |-> IF existing_transno # 0 THEN st.pertrans
                         ELSE Append(st.pertrans, new),
            usable |-> st.usable
                       /\ (existing_transno # 0 \/ ~HybridUnusable(p, aggref)),
            error |-> IF existing_transno # 0 THEN ""
                      ELSE IF build_pertrans_for_aggref_error(p, new) # ""
                      THEN build_pertrans_for_aggref_error(p, new)
                      ELSE InitError(p, new)]>>)

InitAggref(p, i, st, aggref, found, new) ==
    IF found.aggno # 0
    THEN Call("InitAggs", <<p, i + 1, [st EXCEPT !.aggs = Append(@, found.aggno)]>>)
    ELSE IF PlannerError(p, aggref) # ""
    THEN [st EXCEPT !.error = PlannerError(p, aggref)]
    ELSE InitPertrans(p, i, st, aggref, new,
                      find_compatible_pertrans(st.pertrans, new,
                                               found.same_input_transnos))

InitAggs(p, i, st) ==
    IF i > Len(p.aggs) \/ st.error # "" THEN st
    ELSE InitAggref(p, i, st, NodeAggref(p, i),
                    find_compatible_peragg(NodeAggref(p, i), st.peragg),
                    build_pertrans_for_aggref(p, NodeAggref(p, i)))

EmptySortState == [valid |-> FALSE, tuples |-> <<>>]

ExecInitAggState(p, init) ==
    LET usable == init.usable
        tables == build_hash_table(p)
        hashed == p.node.aggstrategy = "AGG_HASHED"
        numphases == Len(SortNodes(p)) + 1
        pertrans == init.pertrans
        newphase == IF hashed THEN 0 ELSE 1
    IN  [agg |-> [aggstrategy |-> p.node.aggstrategy,
                  aggsplit |-> p.aggsplit,
                  numphases |-> numphases,
                  phases |-> BuildPhases(p),
                  num_hashes |-> Len(HashNodes(p)),
                  maxsets |-> MaxSets(p),
                  numtrans |-> Len(pertrans),
                  pertrans |-> pertrans,
                  peragg |-> init.peragg,
                  aggs |-> init.aggs,
                  current_phase |-> newphase,
                  current_set |-> 0,
                  projected_set |-> -1,
                  input_done |-> FALSE,
                  agg_done |-> FALSE,
                  table_filled |-> FALSE,
                  grp_firstTuple |-> <<>>,
                  hash_pergroup |-> [i \in 1..Len(HashNodes(p)) |-> 0],
                  error |-> init.error],
         pergroup |-> IF hashed THEN <<>>
                      ELSE [s \in 1..MaxSets(p) |->
                               [t \in 1..Len(pertrans) |->
                                   [transValue |-> 0, transValueIsNull |-> FALSE,
                                    noTransValue |-> FALSE]]],
         sortst |-> [child |-> 0,
                     sort_in |-> [valid |-> FALSE, tuples |-> <<>>, pos |-> 0],
                     sort_out |-> [valid |-> FALSE, tuples |-> <<>>, cols |-> <<>>],
                     firstSlot |-> <<>>,
                     outertuple |-> <<>>,
                     sortstates |-> [s \in 1..MaxSets(p) |->
                                        [t \in 1..Len(pertrans) |-> EmptySortState]]],
         perhash |-> [i \in 1..Len(tables) |->
                        IF usable THEN tables[i]
                        ELSE [tables[i] EXCEPT !.hashtable.hybrid = FALSE]],
         spill |-> [sets |-> <<>>, files |-> <<>>],
         calls |-> [trans |-> 0, comb |-> 0, combnull |-> FALSE, dumps |-> 0,
                    loads |-> 0, closedwrite |-> FALSE, redump |-> FALSE,
                    rescans |-> <<>>],
         ret |-> <<>>]

(***************************************************************************)
(* tuplesort: a stable sort under a strict weak order.                     *)
(***************************************************************************)
RECURSIVE KeyLess(_, _)
KeyLess(a, b) ==
    IF a = <<>> \/ b = <<>> THEN FALSE
    ELSE IF Head(a) # Head(b) THEN Head(a) < Head(b)
    ELSE KeyLess(Tail(a), Tail(b))

DatumLess(a, b) ==
    IF a.isnull THEN FALSE ELSE IF b.isnull THEN TRUE ELSE a.val < b.val

DatumEqual(a, b) ==
    (a.isnull /\ b.isnull) \/ (~a.isnull /\ ~b.isnull /\ a.val = b.val)

RECURSIVE TupleLess(_, _)
TupleLess(a, b) ==
    IF a = <<>> \/ b = <<>> THEN FALSE
    ELSE IF ~DatumEqual(Head(a), Head(b)) THEN DatumLess(Head(a), Head(b))
    ELSE TupleLess(Tail(a), Tail(b))

tuplesort_performsort(tuples, cols) ==
    LET less(a, b) == KeyLess(KeyOf(a, cols), KeyOf(b, cols))
        pos(i) == Cardinality({j \in 1..Len(tuples) :
                      less(tuples[j], tuples[i])
                      \/ (~less(tuples[i], tuples[j]) /\ j < i)}) + 1
    IN  [n \in 1..Len(tuples) |-> tuples[CHOOSE i \in 1..Len(tuples) : pos(i) = n]]

\* the sorter of an ordered or DISTINCT aggregate, over its argument tuples
tuplesort_performsort_args(tuples) ==
    LET pos(i) == Cardinality({j \in 1..Len(tuples) :
                      TupleLess(tuples[j], tuples[i])
                      \/ (~TupleLess(tuples[i], tuples[j]) /\ j < i)}) + 1
    IN  [n \in 1..Len(tuples) |-> tuples[CHOOSE i \in 1..Len(tuples) : pos(i) = n]]

\* A slot is [row, isnull]: a row and the set of grouping columns flagged
\* null in the slot; <<>> is the empty slot.
SlotOf(row) == [row |-> row, isnull |-> {}]

execTuplesMatch(slot1, slot2, numCols, grpColIdx) ==
    \A j \in 1..numCols :
        LET c == grpColIdx[j]
        IN  IF c \in slot1.isnull \/ c \in slot2.isnull
            THEN c \in slot1.isnull /\ c \in slot2.isnull
            ELSE slot1.row.k[c] = slot2.row.k[c]

(***************************************************************************)
(* initialize_phase and fetch_input_tuple.  Err leaves by elog(ERROR) or   *)
(* by a failed Assert (TRAP): the first message is kept.                   *)
(***************************************************************************)
Err(m, msg) == [m EXCEPT !.agg.error = IF @ = "" THEN msg ELSE @]

initialize_phase(m, newphase) ==
    LET so == m.sortst.sort_out
        sort_in == IF newphase <= 1
                   THEN [valid |-> FALSE, tuples |-> <<>>, pos |-> 0]
                   ELSE [valid |-> TRUE,
                         tuples |-> tuplesort_performsort(so.tuples, so.cols),
                         pos |-> 0]
        sort_out == IF newphase > 0 /\ newphase < m.agg.numphases - 1
                    THEN [valid |-> TRUE, tuples |-> <<>>,
                          cols |-> m.agg.phases[newphase + 1].sortnode]
                    ELSE [valid |-> FALSE, tuples |-> <<>>, cols |-> <<>>]
    IN  IF ~(newphase <= 1 \/ newphase = m.agg.current_phase + 1)
        THEN Err(m, "TRAP: newphase <= 1 || newphase == current_phase + 1")
        ELSE IF newphase > 1 /\ ~so.valid
        THEN Err(m, "TRAP: sort_in")
        ELSE [m EXCEPT !.sortst.sort_in = sort_in,
                       !.sortst.sort_out = sort_out,
                       !.agg.current_phase = newphase]

ExecInitAgg(p) ==
    LET m == ExecInitAggState(p, Call("InitAggs",
                                 <<p, 1, [aggs |-> <<>>, peragg |-> <<>>,
                                          pertrans |-> <<>>, usable |-> TRUE,
                                          error |-> ""]>>))
    IN  Call("initialize_phase", <<m, m.agg.current_phase>>)

\* returns the machine and the slot (<<>> for an empty slot)
\* a fetch that leaves the output sorter alone
fetch_input_tuple_unspooled(p, m) ==
    LET si == m.sortst.sort_in
        slot == IF si.valid
                THEN (IF si.pos < Len(si.tuples) THEN <<si.tuples[si.pos + 1]>> ELSE <<>>)
                ELSE (IF m.sortst.child < Len(p.input)
                      THEN <<p.input[m.sortst.child + 1]>> ELSE <<>>)
        m1 == IF slot = <<>> THEN m
              ELSE IF si.valid THEN [m EXCEPT !.sortst.sort_in.pos = @ + 1]
              ELSE [m EXCEPT !.sortst.child = @ + 1]
    IN  [m |-> m1, slot |-> slot]

fetch_input_tuple(p, m) ==
    LET si == m.sortst.sort_in
        slot == IF si.valid
                THEN (IF si.pos < Len(si.tuples) THEN <<si.tuples[si.pos + 1]>> ELSE <<>>)
                ELSE (IF m.sortst.child < Len(p.input)
                      THEN <<p.input[m.sortst.child + 1]>> ELSE <<>>)
        m1 == IF slot = <<>> THEN m
              ELSE IF si.valid THEN [m EXCEPT !.sortst.sort_in.pos = @ + 1]
              ELSE [m EXCEPT !.sortst.child = @ + 1]
        m2 == IF slot # <<>> /\ m1.sortst.sort_out.valid
              THEN [m1 EXCEPT !.sortst.sort_out.tuples = Append(@, slot[1])]
              ELSE m1
    IN  [m |-> m2, slot |-> slot]

(***************************************************************************)
(* initialize_aggregates.  numReset < 0: the states of a hash entry.       *)
(***************************************************************************)
NumGroupingSets(m) == Max2(m.agg.phases[m.agg.current_phase].numsets, 1)

\* new entries whose null states are not marked as waiting for a first input
initialize_hash_pergroup_marked(m) ==
    [t \in 1..m.agg.numtrans |->
        [initialize_aggregate(m.agg.pertrans[t]) EXCEPT !.noTransValue = FALSE]]

initialize_hash_pergroup(m) ==
    [t \in 1..m.agg.numtrans |-> initialize_aggregate(m.agg.pertrans[t])]

\* every grouping set of the phase reset at each group start
initialize_aggregates_all(m, numResetArg) ==
    [m EXCEPT
      !.pergroup = [s \in DOMAIN @ |-> [t \in DOMAIN @[s] |->
                       IF s <= NumGroupingSets(m) THEN initialize_aggregate(m.agg.pertrans[t])
                       ELSE @[s][t]]],
      !.sortst.sortstates = [s \in DOMAIN @ |-> [t \in DOMAIN @[s] |->
                       IF s <= NumGroupingSets(m) /\ m.agg.pertrans[t].numSortCols > 0
                       THEN [valid |-> TRUE, tuples |-> <<>>]
                       ELSE @[s][t]]],
      !.agg.current_set = IF m.agg.numtrans > 0 THEN NumGroupingSets(m) - 1 ELSE @]

initialize_aggregates(m, numResetArg) ==
    LET numReset == IF numResetArg = 0 THEN NumGroupingSets(m) ELSE numResetArg
        touched(s) == s <= numReset
    IN  [m EXCEPT
          !.pergroup = [s \in DOMAIN @ |-> [t \in DOMAIN @[s] |->
                           IF touched(s) THEN initialize_aggregate(m.agg.pertrans[t])
                           ELSE @[s][t]]],
          !.sortst.sortstates = [s \in DOMAIN @ |-> [t \in DOMAIN @[s] |->
                           IF touched(s) /\ m.agg.pertrans[t].numSortCols > 0
                           THEN [valid |-> TRUE, tuples |-> <<>>]
                           ELSE @[s][t]]],
          !.agg.current_set = IF m.agg.numtrans > 0 /\ numReset > 0
                              THEN numReset - 1 ELSE @]

(***************************************************************************)
(* advance_aggregates for one input row: the sorted sets' states when      *)
(* pergroup is given, the hash entries found by lookup_hash_entries when   *)
(* pergroups is given (usePergroup, usePergroups: the pointer is not NULL).*)
(***************************************************************************)
EvalFilter(filter, row) ==
    CASE filter = ""     -> TRUE
      [] filter = "k2=1" -> row.k[2] = 1
      [] filter = "k2>1" -> row.k[2] > 1
      [] filter = "v>1"  -> ~row.v.isnull /\ row.v.val > 1
      [] filter = "m>1"  -> ~row.m.isnull /\ row.m.val > 1

StrictSkip(pertrans, args) ==
    pertrans.transfn_strict /\ \E i \in 1..pertrans.numTransInputs : args[i].isnull

\* compute input for all aggregates: one projection evaluates the arguments
\* of every transition
ExecProject_evalproj(m, row) ==
    IF \E t \in 1..m.agg.numtrans : ArgThrows(row, m.agg.pertrans[t].arg)
    THEN Err(m, "division by zero")
    ELSE m

advance_aggregates(m, row, usePergroup, usePergroups) ==
    LET numGroupingSets == NumGroupingSets(m)
        pt(t) == m.agg.pertrans[t]
        args(t) == ArgsOf(row, pt(t).arg)
        pass(t) == EvalFilter(pt(t).aggfilter, row)
        sorted(t) == pt(t).numSortCols > 0
        adv(t, pg) == advance_transition_function(pt(t), pg, args(t))
        direct(t) == pass(t) /\ ~sorted(t)
        entryidx(h) == m.agg.hash_pergroup[h]
        newgroup == [s \in DOMAIN m.pergroup |-> [t \in DOMAIN m.pergroup[s] |->
                        IF usePergroup /\ direct(t) /\ s <= numGroupingSets
                        THEN adv(t, m.pergroup[s][t]).pg ELSE m.pergroup[s][t]]]
        newsort == [s \in DOMAIN m.sortst.sortstates |->
                      [t \in DOMAIN m.sortst.sortstates[s] |->
                        IF pass(t) /\ sorted(t) /\ ~StrictSkip(pt(t), args(t))
                           /\ s <= numGroupingSets
                        THEN [m.sortst.sortstates[s][t] EXCEPT !.tuples = Append(@, args(t))]
                        ELSE m.sortst.sortstates[s][t]]]
        newhash == [h \in DOMAIN m.perhash |->
                      IF usePergroups
                      THEN [m.perhash[h] EXCEPT !.hashtable.entries[entryidx(h)].additional =
                               [t \in DOMAIN @ |-> IF direct(t) THEN adv(t, @[t]).pg ELSE @[t]]]
                      ELSE m.perhash[h]]
        ncalls == Cardinality({st \in (DOMAIN m.pergroup) \X (1..m.agg.numtrans) :
                      usePergroup /\ direct(st[2]) /\ st[1] <= numGroupingSets
                      /\ adv(st[2], m.pergroup[st[1]][st[2]]).called})
                  + Cardinality({ht \in (DOMAIN m.perhash) \X (1..m.agg.numtrans) :
                      usePergroups /\ direct(ht[2])
                      /\ adv(ht[2], m.perhash[ht[1]].hashtable.entries[entryidx(ht[1])]
                                       .additional[ht[2]]).called})
    IN  IF ExecProject_evalproj(m, row).agg.error # "" THEN ExecProject_evalproj(m, row)
        ELSE
        [m EXCEPT !.pergroup = newgroup,
                  !.sortst.sortstates = newsort,
                  !.perhash = newhash,
                  !.calls.trans = @ + ncalls,
                  !.agg.current_set = IF m.agg.numtrans = 0 THEN @
                                      ELSE IF usePergroups /\ \E t \in 1..m.agg.numtrans : direct(t)
                                      THEN m.agg.num_hashes - 1
                                      ELSE IF usePergroup /\ \E t \in 1..m.agg.numtrans : direct(t)
                                      THEN numGroupingSets - 1
                                      ELSE @]

(***************************************************************************)
(* combine_aggregates: the input row carries one partial state per         *)
(* aggregate (row.st); pergroup is the first sorted set's states           *)
(* (hashidx = 0) or the entry hashidx of the first hash table.             *)
(***************************************************************************)
CombineInput(pertrans, d) ==
    IF pertrans.deserialfn_oid # ""
    THEN IF FnStrict(pertrans.deserialfn_oid) /\ d.isnull THEN d
         ELSE FunctionCallInvoke(pertrans.deserialfn_oid, d, NullDatum)
    ELSE d

combine_aggregates(m, row, hashidx) ==
    LET pt(t) == m.agg.pertrans[t]
        old(t) == IF hashidx = 0 THEN m.pergroup[1][t]
                  ELSE m.perhash[1].hashtable.entries[hashidx].additional[t]
        adv(t) == advance_combine_function(pt(t), old(t), CombineInput(pt(t), ArgsOf(row, pt(t).arg)[1]))
        ncalls == Cardinality({t \in 1..m.agg.numtrans : adv(t).called})
        states == [t \in 1..m.agg.numtrans |-> adv(t).pg]
    IN  IF hashidx = 0
        THEN [m EXCEPT !.pergroup[1] = states, !.calls.trans = @ + ncalls]
        ELSE [m EXCEPT !.perhash[1].hashtable.entries[hashidx].additional = states,
                       !.calls.trans = @ + ncalls]

(***************************************************************************)
(* process_ordered_aggregate_single / _multi: run the sorted (and, for     *)
(* DISTINCT, deduplicated) inputs of one group through the transition      *)
(* function.  Both return the state and the number of calls made.          *)
(***************************************************************************)
RECURSIVE OrderedSingleLoop(_, _, _, _, _, _)
OrderedSingleLoop(pertrans, pg, tuples, haveOldVal, oldVal, ncalls) ==
    IF tuples = <<>> THEN [pg |-> pg, ncalls |-> ncalls]
    ELSE LET newVal == Head(tuples)[1]
             isDistinct == pertrans.numDistinctCols > 0
         IN  IF isDistinct /\ haveOldVal
                /\ ((oldVal.isnull /\ newVal.isnull)
                    \/ (~oldVal.isnull /\ ~newVal.isnull /\ oldVal.val = newVal.val))
             THEN OrderedSingleLoop(pertrans, pg, Tail(tuples), haveOldVal, oldVal, ncalls)
             ELSE LET r == advance_transition_function(pertrans, pg, <<newVal>>)
                  IN  OrderedSingleLoop(pertrans, r.pg, Tail(tuples), TRUE, newVal,
                                        ncalls + (IF r.called THEN 1 ELSE 0))

\* the sorted inputs run through without the comparison to the previous one
process_ordered_aggregate_single_all(pertrans, pergroupstate, sortstate) ==
    OrderedSingleLoop([pertrans EXCEPT !.numDistinctCols = 0], pergroupstate,
                      tuplesort_performsort_args(sortstate.tuples), FALSE, NullDatum, 0)

process_ordered_aggregate_single(pertrans, pergroupstate, sortstate) ==
    OrderedSingleLoop(pertrans, pergroupstate,
                      tuplesort_performsort_args(sortstate.tuples), FALSE, NullDatum, 0)

TupleMatch(t1, t2, numCols) == \A j \in 1..numCols : DatumEqual(t1[j], t2[j])

RECURSIVE OrderedMultiLoop(_, _, _, _, _, _)
OrderedMultiLoop(pertrans, pg, tuples, haveOldValue, slot2, ncalls) ==
    IF tuples = <<>> THEN [pg |-> pg, ncalls |-> ncalls]
    ELSE LET slot1 == Head(tuples)
         IN  IF pertrans.numDistinctCols = 0 \/ ~haveOldValue
                \/ ~TupleMatch(slot1, slot2, pertrans.numDistinctCols)
             THEN LET r == advance_transition_function(pertrans, pg, slot1)
                  IN  OrderedMultiLoop(pertrans, r.pg, Tail(tuples),
                                       haveOldValue \/ pertrans.numDistinctCols > 0,
                                       IF pertrans.numDistinctCols > 0 THEN slot1 ELSE slot2,
                                       ncalls + (IF r.called THEN 1 ELSE 0))
             ELSE OrderedMultiLoop(pertrans, pg, Tail(tuples), haveOldValue, slot2, ncalls)

process_ordered_aggregate_multi(pertrans, pergroupstate, sortstate) ==
    OrderedMultiLoop(pertrans, pergroupstate,
                     tuplesort_performsort_args(sortstate.tuples), FALSE, <<>>, 0)

(***************************************************************************)
(* finalize_aggregate, finalize_partialaggregate, finalize_aggregates.     *)
(***************************************************************************)
ResultDatum(d) == IF d.isnull THEN NullDatum ELSE d

finalize_aggregate(peragg, pergroupstate) ==
    IF peragg.finalfn_oid # ""
    THEN IF FnStrict(peragg.finalfn_oid) /\ pergroupstate.transValueIsNull
         THEN NullDatum
         ELSE ResultDatum(FunctionCallInvoke(peragg.finalfn_oid,
                                             StateDatum(pergroupstate), NullDatum))
    ELSE ResultDatum(StateDatum(pergroupstate))

finalize_partialaggregate(pertrans, pergroupstate) ==
    IF pertrans.serialfn_oid # ""
    THEN IF FnStrict(pertrans.serialfn_oid) /\ pergroupstate.transValueIsNull
         THEN NullDatum
         ELSE ResultDatum(FunctionCallInvoke(pertrans.serialfn_oid,
                                             StateDatum(pergroupstate), NullDatum))
    ELSE ResultDatum(StateDatum(pergroupstate))

\* pergroup: the states of the group being finalized; returns them as the
\* ordered aggregates left them, the calls made and the aggvalues
finalize_aggregates(m, pergroupArr) ==
    LET pt(t) == m.agg.pertrans[t]
        ss(t) == m.sortst.sortstates[m.agg.current_set + 1][t]
        ord(t) == IF pt(t).numInputs = 1
                  THEN process_ordered_aggregate_single(pt(t), pergroupArr[t], ss(t))
                  ELSE process_ordered_aggregate_multi(pt(t), pergroupArr[t], ss(t))
        states == [t \in 1..m.agg.numtrans |->
                      IF pt(t).numSortCols > 0 THEN ord(t).pg ELSE pergroupArr[t]]
        ncalls == SeqSum([t \in 1..m.agg.numtrans |->
                      IF pt(t).numSortCols > 0 THEN ord(t).ncalls ELSE 0])
    IN  [states |-> states,
         ncalls |-> ncalls,
         aggvalues |-> [a \in 1..Len(m.agg.peragg) |->
                          IF m.agg.aggsplit.skipfinal
                          THEN finalize_partialaggregate(pt(m.agg.peragg[a].transno),
                                                         states[m.agg.peragg[a].transno])
                          ELSE finalize_aggregate(m.agg.peragg[a],
                                                  states[m.agg.peragg[a].transno])]]

(***************************************************************************)
(* prepare_projection_slot and project_aggregates.  The row handed to the  *)
(* caller shows the grouping columns of the whole plan and the aggregate   *)
(* values.                                                                 *)
(***************************************************************************)
AllGroupedCols(m) ==
    UNION {m.agg.phases[ph].grouped_cols[1] :
              ph \in {q \in 1..m.agg.numphases - 1 : m.agg.phases[q].numsets > 0}}
    \cup UNION {m.agg.phases[0].grouped_cols[j] : j \in 1..m.agg.num_hashes}

AllCols == {1, 2}
AllNullRow == [k |-> <<0, 0>>, v |-> NullDatum, m |-> NullDatum, st |-> <<>>]

\* a projection slot that keeps the columns the current set does not group by
prepare_projection_slot_keeping(m, slot, currentSet) == slot

prepare_projection_slot(m, slot, currentSet) ==
    LET phase == m.agg.phases[m.agg.current_phase]
    IN  IF phase.numsets > 0
        THEN IF slot = <<>>
             THEN <<[row |-> AllNullRow, isnull |-> AllCols]>>
             ELSE <<[slot[1] EXCEPT !.isnull =
                        @ \cup (AllGroupedCols(m) \ phase.grouped_cols[currentSet + 1])]>>
        ELSE slot

GroupedCols(m, currentSet) ==
    LET phase == m.agg.phases[m.agg.current_phase]
    IN  IF phase.numsets > 0 THEN phase.grouped_cols[currentSet + 1]
        ELSE ColSet(phase.aggnode.grpColIdx, Len(phase.aggnode.grpColIdx))

project_aggregates(m, slot, currentSet, aggvalues) ==
    LET shown == AllGroupedCols(m) \cup GroupedCols(m, currentSet)
    IN  [cols |-> GroupedCols(m, currentSet),
         key |-> [c \in 1..2 |-> IF slot # <<>> /\ c \in shown /\ c \notin slot[1].isnull
                                 THEN slot[1].row.k[c] ELSE 0],
         \* the target list reads each Aggref's value at its aggno
         aggs |-> [i \in DOMAIN m.agg.aggs |-> aggvalues[m.agg.aggs[i]]]]

(***************************************************************************)
(* The hybrid hash table: SpillSets and SpillFiles live in m.spill, named  *)
(* by their index (0 is the NULL pointer).  A batch file holds records     *)
(* [hash, tuple, states], an INTERNAL state in its serialized form.        *)
(***************************************************************************)
NewSpillFile ==
    [recs |-> <<>>, ntups_read |-> 0, ntups_write |-> 0, spilled |-> FALSE,
     child_spill_set |-> 0, closed |-> FALSE]

IsInternal(pertrans) == pertrans.aggtranstype = "internal"

\* one entry of the table written to its batch file; ub picks what a write
\* to a BufFile that BufFileClose has freed does
DumpEntry(m, setno, sid, entry, ub) ==
    LET hashtable == m.perhash[setno + 1].hashtable
        spill_file_index == entry.hash % hashtable.nbatches
        have == m.spill.sets[sid].spill_file[spill_file_index + 1] # 0
        fid == IF have THEN m.spill.sets[sid].spill_file[spill_file_index + 1]
               ELSE Len(m.spill.files) + 1
        m1 == IF have THEN m
              ELSE [m EXCEPT !.spill.files = Append(@, NewSpillFile),
                             !.spill.sets[sid].spill_file[spill_file_index + 1] = fid]
        pt(t) == m.agg.pertrans[t]
        noserial == \E t \in 1..m.agg.numtrans :
                       ~entry.additional[t].transValueIsNull /\ IsInternal(pt(t))
                       /\ pt(t).serial_func_id = ""
        states == [t \in 1..m.agg.numtrans |->
                     IF ~entry.additional[t].transValueIsNull /\ IsInternal(pt(t))
                     THEN [entry.additional[t] EXCEPT !.transValue =
                              FunctionCallInvoke(pt(t).serial_func_id,
                                                 StateDatum(entry.additional[t]),
                                                 NullDatum).val]
                     ELSE entry.additional[t]]
        rec == [hash |-> entry.hash, tuple |-> entry.firstTuple, states |-> states]
    IN  IF m1.spill.files[fid].closed
        THEN IF ub = "crash" THEN Err(m1, "write to a closed batch file")
             ELSE [m1 EXCEPT !.spill.files[fid].ntups_write = @ + 1,
                             !.calls.closedwrite = TRUE]
        ELSE IF noserial THEN Err(m1, "could not serialize the transition value")
        ELSE [m1 EXCEPT !.spill.files[fid].recs = Append(@, rec),
                        !.spill.files[fid].ntups_write = @ + 1]

RECURSIVE DumpEntries(_, _, _, _, _)
DumpEntries(m, setno, sid, entries, ub) ==
    IF entries = <<>> \/ m.agg.error # "" THEN m
    ELSE DumpEntries(Call("DumpEntry", <<m, setno, sid, Head(entries), ub>>), setno, sid,
                     Tail(entries), ub)

DumpHybridHashtable(m, setno, ub) ==
    LET hashtable == m.perhash[setno + 1].hashtable
        newid == Len(m.spill.sets) + 1
        m1 == IF ~hashtable.spilled
              THEN [m EXCEPT !.perhash[setno + 1].hashtable.spilled = TRUE,
                             !.perhash[setno + 1].hashtable.spill_set = newid,
                             !.spill.sets = Append(@,
                                 [level |-> 0, num_files |-> hashtable.nbatches,
                                  parent_index |-> -1, parent_spill_set |-> 0,
                                  current_file |-> 0,
                                  spill_file |-> [i \in 1..hashtable.nbatches |-> 0]])]
              ELSE m
        sid == m1.perhash[setno + 1].hashtable.spill_set
        m2 == [m1 EXCEPT !.calls.dumps = @ + 1,
                         !.calls.redump = @ \/ m.calls.loads > 0]
        m3 == IF hashtable.entries = <<>> THEN m2
              ELSE IF sid = 0 THEN Err(m2, "NULL spill set dereferenced")
              ELSE DumpEntries(m2, setno, sid, hashtable.entries, ub)
    IN  IF m3.agg.error # "" THEN m3
        ELSE [m3 EXCEPT !.perhash[setno + 1].hashtable.entries = <<>>]

ResetHybridHashtable(m, setno) ==
    [m EXCEPT !.perhash[setno + 1].hashtable.entries = <<>>]

\* a table that never asks for its batch files
HybridHashtableLoadDone_always(m, setno) == [m |-> m, result |-> TRUE]

HybridHashtableLoadDone(m, setno) ==
    LET hashtable == m.perhash[setno + 1].hashtable
        spill_set == hashtable.spill_set
        result == ~hashtable.spilled
                  \/ spill_set = 0
                  \/ (m.spill.sets[spill_set].current_file >= m.spill.sets[spill_set].num_files
                      /\ m.spill.sets[spill_set].parent_spill_set = 0)
    IN  [m |-> IF result THEN m ELSE ResetHybridHashtable(m, setno), result |-> result]

(***************************************************************************)
(* LoadHybridHashtable.  LoadRecord is one round of the read loop: the     *)
(* record merges into the entry of its key (found), starts a new entry, or *)
(* moves on to the child spill set of the file being read when the table   *)
(* is full.                                                                *)
(***************************************************************************)
RecordState(pertrans, st) ==
    IF ~st.transValueIsNull /\ IsInternal(pertrans)
    THEN [st EXCEPT !.transValue =
             FunctionCallInvoke(pertrans.deserial_func_id,
                                [val |-> st.transValue, isnull |-> FALSE], NullDatum).val]
    ELSE st

\* a child spill set with as many batch files as its parent
ChildSpillSet_samesize(spill_set, sid) ==
    [level |-> spill_set.level + 1,
     num_files |-> spill_set.num_files,
     parent_index |-> spill_set.current_file,
     parent_spill_set |-> sid,
     current_file |-> 0,
     spill_file |-> [i \in 1..spill_set.num_files |-> 0]]

\* the child spill set of the batch file being read from spill_set (set sid)
ChildSpillSet(spill_set, sid) ==
    [level |-> spill_set.level + 1,
     num_files |-> spill_set.num_files + 1,
     parent_index |-> spill_set.current_file,
     parent_spill_set |-> sid,
     current_file |-> 0,
     spill_file |-> [i \in 1..spill_set.num_files + 1 |-> 0]]

\* the probe of the table by a record's hash alone
ProbeRecord_byhash(hashtable, rec) ==
    LET same == {i \in 1..Len(hashtable.entries) : hashtable.entries[i].hash = rec.hash}
    IN  LookupTupleHashEntry(hashtable, rec.hash,
            IF same = {} THEN rec.tuple
            ELSE hashtable.entries[CHOOSE i \in same : TRUE].firstTuple)

\* tuplehash_insert_with_key: the probe by the record's key tuple, with the
\* hash value stored in the record
ProbeRecord(hashtable, rec) ==
    LookupTupleHashEntry(hashtable, rec.hash, rec.tuple)

LoadRecord(m, setno, sid, fid, rec) ==
    LET hashtable == m.perhash[setno + 1].hashtable
        r == ProbeRecord(hashtable, rec)
        pt(t) == m.agg.pertrans[t]
        nodeserial == \E t \in 1..m.agg.numtrans :
                         ~rec.states[t].transValueIsNull /\ IsInternal(pt(t))
                         /\ pt(t).deserial_func_id = ""
        m0 == [m EXCEPT !.spill.files[fid].ntups_read = @ + 1]
    IN  IF r.idx # 0 /\ ~r.isnew
        THEN \* found: merge
             IF nodeserial THEN Err(m0, "could not deserial transition value")
             ELSE LET old(t) == hashtable.entries[r.idx].additional[t]
                      cmb(t) == combine_transition(pt(t), old(t),
                                                   StateDatum(RecordState(pt(t), rec.states[t])))
                      m1 == [m0 EXCEPT
                               !.perhash[setno + 1].hashtable.entries[r.idx].additional =
                                   [t \in 1..m.agg.numtrans |-> cmb(t).pg],
                               !.calls.comb = @ + Cardinality({t \in 1..m.agg.numtrans :
                                                                  cmb(t).called}),
                               !.calls.combnull = @ \/ \E t \in 1..m.agg.numtrans :
                                   cmb(t).called /\ pt(t).combfn_strict
                                   /\ old(t).transValueIsNull]
                  IN  IF \E t \in 1..m.agg.numtrans : cmb(t).crash
                      THEN Err(m0, "combine function called through a zeroed FmgrInfo")
                      ELSE m1
        ELSE IF r.idx = 0
        THEN \* the table is full: the record goes to the child spill set
             LET file == m0.spill.files[fid]
                 spill_set == m0.spill.sets[sid]
                 cid == IF file.spilled THEN file.child_spill_set
                        ELSE Len(m0.spill.sets) + 1
                 m1 == IF file.spilled THEN m0
                       ELSE [m0 EXCEPT
                               !.spill.files[fid].spilled = TRUE,
                               !.spill.files[fid].child_spill_set = cid,
                               !.spill.sets = Append(@, ChildSpillSet(spill_set, sid))]
                 file_index == rec.hash % m1.spill.sets[cid].num_files
                 have == m1.spill.sets[cid].spill_file[file_index + 1] # 0
                 sfile == IF have THEN m1.spill.sets[cid].spill_file[file_index + 1]
                          ELSE Len(m1.spill.files) + 1
                 m2 == IF have THEN m1
                       ELSE [m1 EXCEPT !.spill.files = Append(@, NewSpillFile),
                                       !.spill.sets[cid].spill_file[file_index + 1] = sfile]
             IN  [m2 EXCEPT !.spill.files[sfile].recs = Append(@, rec),
                            !.spill.files[sfile].ntups_write = @ + 1]
        ELSE \* new entry
             IF nodeserial THEN Err(m0, "could not deserial transition value")
             ELSE [m0 EXCEPT !.perhash[setno + 1].hashtable =
                      [r.hashtable EXCEPT !.entries[r.idx].additional =
                          [t \in 1..m.agg.numtrans |-> RecordState(pt(t), rec.states[t])]]]

RECURSIVE LoadRecords(_, _, _, _, _)
LoadRecords(m, setno, sid, fid, recs) ==
    IF recs = <<>> \/ m.agg.error # "" THEN m
    ELSE LoadRecords(Call("LoadRecord", <<m, setno, sid, fid, Head(recs)>>), setno, sid, fid, Tail(recs))

RECURSIVE LoadHybridHashtable(_, _)
LoadHybridHashtable(m, setno) ==
    LET hashtable == m.perhash[setno + 1].hashtable
        sid == hashtable.spill_set
    IN  IF ~hashtable.spilled \/ sid = 0 THEN m
        ELSE LET spill_set == m.spill.sets[sid]
                 rest == {i \in spill_set.current_file .. spill_set.num_files - 1 :
                             spill_set.spill_file[i + 1] # 0}
             IN  IF spill_set.current_file < spill_set.num_files /\ rest # {}
                 THEN LET i == CHOOSE x \in rest : \A y \in rest : x <= y
                          fid == spill_set.spill_file[i + 1]
                          m1 == [m EXCEPT !.spill.sets[sid].current_file = i + 1]
                          m2 == LoadRecords(m1, setno, sid, fid, m1.spill.files[fid].recs)
                          file == m2.spill.files[fid]
                      IN  IF m2.agg.error # "" THEN m2
                          ELSE IF file.ntups_read # file.ntups_write
                          THEN Err([m2 EXCEPT !.spill.files[fid].closed = TRUE],
                                   "data corrupted in spill file")
                          ELSE [m2 EXCEPT
                                  !.spill.files[fid].closed = TRUE,
                                  !.perhash[setno + 1].hashtable.spill_set =
                                      IF file.spilled THEN file.child_spill_set ELSE @,
                                  !.perhash[setno + 1].hashiter = [cur |-> 1],
                                  !.calls.loads = @ + 1]
                 ELSE LoadHybridHashtable(
                          [m EXCEPT !.spill.sets[sid].current_file =
                                       IF spill_set.current_file < spill_set.num_files
                                       THEN spill_set.num_files ELSE @,
                                    !.perhash[setno + 1].hashtable.spill_set =
                                       spill_set.parent_spill_set],
                          setno)

RECURSIVE DumpIfSpilledFrom(_, _, _)
DumpIfSpilledFrom(m, setno, ub) ==
    IF setno >= m.agg.num_hashes \/ m.agg.error # "" THEN m
    ELSE IF m.perhash[setno + 1].hashtable.spilled
    THEN LET m1 == Call("DumpHybridHashtable", <<m, setno, ub>>)
         IN  DumpIfSpilledFrom(IF m1.agg.error # "" THEN m1
                               ELSE Call("LoadHybridHashtable", <<m1, setno>>),
                               setno + 1, ub)
    ELSE DumpIfSpilledFrom(m, setno + 1, ub)

dump_hashtable_if_spilled(m, ub) == DumpIfSpilledFrom(m, 0, ub)

(***************************************************************************)
(* lookup_hash_entry (for the table of current_set) and                    *)
(* lookup_hash_entries.                                                    *)
(***************************************************************************)
lookup_hash_entry(m, row, ub) ==
    LET setno == m.agg.current_set
        ph == m.perhash[setno + 1]
        key == KeyOf(row, ph.aggnode.grpColIdx)
        hash == TupleHashTableHash(key)
        r1 == LookupTupleHashEntry(ph.hashtable, hash, key)
        full == r1.idx = 0 /\ ph.hashtable.hybrid
        m2 == IF full THEN Call("DumpHybridHashtable", <<m, setno, ub>>) ELSE m
        r == IF full
             THEN LookupTupleHashEntry(m2.perhash[setno + 1].hashtable, hash, key)
             ELSE r1
    IN  IF m2.agg.error # "" THEN m2
        ELSE IF r.idx = 0
        THEN Err(m2, IF ph.hashtable.hybrid
                     THEN "could not find entry in hybrid-hashtable"
                     ELSE "could not find entry in hashtable")
        ELSE [m2 EXCEPT
                !.perhash[setno + 1].hashtable =
                    IF r.isnew
                    THEN [r.hashtable EXCEPT !.entries[r.idx].additional =
                             initialize_hash_pergroup(m)]
                    ELSE r.hashtable,
                !.agg.hash_pergroup[setno + 1] = r.idx]

RECURSIVE LookupFrom(_, _, _, _)
LookupFrom(m, row, setno, ub) ==
    IF setno >= m.agg.num_hashes \/ m.agg.error # "" THEN m
    ELSE LookupFrom(Call("lookup_hash_entry", <<[m EXCEPT !.agg.current_set = setno], row, ub>>),
                    row, setno + 1, ub)

lookup_hash_entries(m, row, ub) == LookupFrom(m, row, 0, ub)

(***************************************************************************)
(* agg_fill_hash_table: read the whole input into the hash tables.         *)
(***************************************************************************)
RECURSIVE FillLoop(_, _, _)
FillLoop(p, m, ub) ==
    LET f == Call("fetch_input_tuple", <<p, m>>)
    IN  IF m.agg.error # "" THEN m
        ELSE IF f.slot = <<>>
        THEN IF p.g_hybrid_hash_agg THEN Call("dump_hashtable_if_spilled", <<f.m, ub>>) ELSE f.m
        ELSE LET m1 == Call("lookup_hash_entries", <<f.m, f.slot[1], ub>>)
             IN  IF m1.agg.error # "" THEN m1
                 ELSE FillLoop(p,
                               IF m1.agg.aggsplit.combine
                               THEN Call("combine_aggregates", <<m1, f.slot[1], m1.agg.hash_pergroup[1]>>)
                               ELSE Call("advance_aggregates", <<m1, f.slot[1], FALSE, TRUE>>),
                               ub)

agg_fill_hash_table(p, m, ub) ==
    LET m1 == FillLoop(p, m, ub)
    IN  IF m1.agg.error # "" THEN m1
        ELSE [m1 EXCEPT !.agg.table_filled = TRUE,
                        !.agg.current_set = 0,
                        !.perhash[1].hashiter =
                            IF ~m1.perhash[1].hashtable.spilled THEN [cur |-> 1] ELSE @]

\* one round of the loop of agg_fill_hash_table, for a child that has a row
FillRowAdvance(m1, row) ==
    IF m1.agg.error # "" THEN m1
    ELSE IF m1.agg.aggsplit.combine
    THEN Call("combine_aggregates", <<m1, row, m1.agg.hash_pergroup[1]>>)
    ELSE Call("advance_aggregates", <<m1, row, FALSE, TRUE>>)

FillRowLookup(f, ub) ==
    FillRowAdvance(Call("lookup_hash_entries", <<f.m, f.slot[1], ub>>), f.slot[1])

FillRowProc(p, m, ub) == FillRowLookup(Call("fetch_input_tuple", <<p, m>>), ub)

(***************************************************************************)
(* agg_retrieve_hash_table: the next group of the hash tables, or NULL.    *)
(***************************************************************************)
HashSlot(ph, entry) ==
    LET cols == ph.aggnode.grpColIdx
        pos(c) == CHOOSE j \in 1..Len(cols) : cols[j] = c
    IN  [row |-> [AllNullRow EXCEPT !.k = [c \in 1..2 |->
                      IF c \in ColSet(cols, Len(cols)) THEN entry.firstTuple[pos(c)] ELSE 0]],
         isnull |-> AllCols \ ColSet(cols, Len(cols))]

\* a table scan that ends with the scan rewound instead of the node done
HashTablesDone_rewound(m) ==
    [m EXCEPT !.agg.current_set = 0, !.perhash[1].hashiter = [cur |-> 1], !.ret = <<>>]

\* no more hash tables: the aggregation is done
HashTablesDone(m) ==
    [m EXCEPT !.agg.agg_done = TRUE, !.ret = <<>>]

\* a scan that starts over at the end of the table instead of asking for the
\* next batch or ending
agg_retrieve_hash_table_cycling(m) ==
    LET setno == m.agg.current_set
        ph == m.perhash[setno + 1]
        cur == IF ph.hashiter.cur > Len(ph.hashtable.entries) THEN 1 ELSE ph.hashiter.cur
    IN  IF ph.hashtable.entries = <<>> THEN HashTablesDone(m)
        ELSE LET entry == ph.hashtable.entries[cur]
                 firstSlot == <<HashSlot(ph, entry)>>
                 slot == Call("prepare_projection_slot", <<m, firstSlot, setno>>)
                 fin == Call("finalize_aggregates", <<m, entry.additional>>)
             IN  [m EXCEPT !.perhash[setno + 1].hashiter.cur = cur + 1,
                           !.sortst.firstSlot = slot,
                           !.ret = <<Call("project_aggregates", <<m, slot, setno, fin.aggvalues>>)>>]

RECURSIVE agg_retrieve_hash_table(_)
agg_retrieve_hash_table(m) ==
    IF m.agg.agg_done \/ m.agg.error # "" THEN [m EXCEPT !.ret = <<>>]
    ELSE LET setno == m.agg.current_set
             ph == m.perhash[setno + 1]
             cur == ph.hashiter.cur
         IN  IF cur > Len(ph.hashtable.entries)
             THEN LET ld == IF ph.hashtable.hybrid
                            THEN HybridHashtableLoadDone(m, setno)
                            ELSE [m |-> m, result |-> TRUE]
                  IN  IF ~ld.result
                      THEN agg_retrieve_hash_table(Call("LoadHybridHashtable", <<ld.m, setno>>))
                      ELSE IF setno + 1 < m.agg.num_hashes
                      THEN agg_retrieve_hash_table(
                               [m EXCEPT !.agg.current_set = setno + 1,
                                         !.perhash[setno + 2].hashiter = [cur |-> 1]])
                      ELSE HashTablesDone(m)
             ELSE LET entry == ph.hashtable.entries[cur]
                      firstSlot == <<HashSlot(ph, entry)>>
                      slot == Call("prepare_projection_slot", <<m, firstSlot, setno>>)
                      fin == Call("finalize_aggregates", <<m, entry.additional>>)
                  IN  [m EXCEPT !.perhash[setno + 1].hashiter.cur = cur + 1,
                                !.sortst.firstSlot = slot,
                                !.calls.trans = @ + fin.ncalls,
                                !.ret = <<Call("project_aggregates", <<m, slot, setno, fin.aggvalues>>)>>]

(***************************************************************************)
(* agg_retrieve_direct: the next group of the sorted phases, or NULL.      *)
(* GroupLoop is the inner loop over the rows of one group, DirectProject   *)
(* the tail of the outer loop (finalize and project the current set).      *)
(***************************************************************************)
RECURSIVE GroupLoop(_, _, _)
\* the hash tables updated in every sorted phase of a mixed plan
GroupLoop_allphases(p, m, ub) ==
    LET phase == m.agg.phases[m.agg.current_phase]
        node == phase.aggnode
        row == m.sortst.outertuple[1].row
        mixed1 == m.agg.aggstrategy = "AGG_MIXED"
        m1 == IF mixed1 THEN Call("lookup_hash_entries", <<m, row, ub>>) ELSE m
        m2 == IF m1.agg.aggsplit.combine THEN Call("combine_aggregates", <<m1, row, 0>>)
              ELSE Call("advance_aggregates", <<m1, row, TRUE, mixed1>>)
        f == Call("fetch_input_tuple", <<p, m2>>)
    IN  IF m1.agg.error # "" THEN m1
        ELSE IF m2.agg.error # "" THEN m2
        ELSE IF f.slot = <<>>
        THEN LET m3 == IF p.g_hybrid_hash_agg THEN Call("dump_hashtable_if_spilled", <<f.m, ub>>)
                       ELSE f.m
             IN  IF phase.numsets > 0 THEN [m3 EXCEPT !.agg.input_done = TRUE]
                 ELSE [m3 EXCEPT !.agg.agg_done = TRUE]
        ELSE LET m3 == [f.m EXCEPT !.sortst.outertuple = <<SlotOf(f.slot[1])>>]
             IN  IF node.aggstrategy # "AGG_PLAIN"
                    /\ ~execTuplesMatch(m3.sortst.firstSlot[1], SlotOf(f.slot[1]),
                                        Len(node.grpColIdx), node.grpColIdx)
                 THEN [m3 EXCEPT !.agg.grp_firstTuple = f.slot]
                 ELSE GroupLoop(p, m3, ub)

GroupLoop(p, m, ub) ==
    LET phase == m.agg.phases[m.agg.current_phase]
        node == phase.aggnode
        row == m.sortst.outertuple[1].row
        mixed1 == m.agg.aggstrategy = "AGG_MIXED" /\ m.agg.current_phase = 1
        m1 == IF mixed1 THEN Call("lookup_hash_entries", <<m, row, ub>>) ELSE m
        m2 == IF m1.agg.aggsplit.combine THEN Call("combine_aggregates", <<m1, row, 0>>)
              ELSE Call("advance_aggregates", <<m1, row, TRUE, mixed1>>)
        f == Call("fetch_input_tuple", <<p, m2>>)
    IN  IF m1.agg.error # "" THEN m1
        ELSE IF m2.agg.error # "" THEN m2
        ELSE IF f.slot = <<>>
        THEN LET m3 == IF p.g_hybrid_hash_agg THEN Call("dump_hashtable_if_spilled", <<f.m, ub>>)
                       ELSE f.m
             IN  IF phase.numsets > 0 THEN [m3 EXCEPT !.agg.input_done = TRUE]
                 ELSE [m3 EXCEPT !.agg.agg_done = TRUE]
        ELSE LET m3 == [f.m EXCEPT !.sortst.outertuple = <<SlotOf(f.slot[1])>>]
             IN  IF node.aggstrategy # "AGG_PLAIN"
                    /\ ~execTuplesMatch(m3.sortst.firstSlot[1], SlotOf(f.slot[1]),
                                        Len(node.grpColIdx), node.grpColIdx)
                 THEN [m3 EXCEPT !.agg.grp_firstTuple = f.slot]
                 ELSE GroupLoop(p, m3, ub)

DirectProject(m) ==
    IF m.agg.projected_set < 0 THEN Err(m, "TRAP: projected_set >= 0") ELSE
    LET currentSet == m.agg.projected_set
        slot == Call("prepare_projection_slot", <<m, m.sortst.firstSlot, currentSet>>)
        m1 == [m EXCEPT !.agg.current_set = currentSet, !.sortst.firstSlot = slot]
        fin == Call("finalize_aggregates", <<m1, m1.pergroup[currentSet + 1]>>)
    IN  [m1 EXCEPT !.pergroup[currentSet + 1] = fin.states,
                   !.sortst.sortstates[currentSet + 1] =
                       [t \in DOMAIN @ |-> IF m.agg.pertrans[t].numSortCols > 0
                                           THEN EmptySortState ELSE @[t]],
                   !.calls.trans = @ + fin.ncalls,
                   !.ret = <<Call("project_aggregates", <<m1, slot, currentSet, fin.aggvalues>>)>>]

\* end of input projecting from the first grouping set, empty or not
FirstEmptySet_first(gset_lengths, numGroupingSets) == 0

FirstEmptySet(gset_lengths, numGroupingSets) ==
    LET empties == {i \in 0..numGroupingSets - 1 : gset_lengths[i + 1] = 0}
    IN  IF empties = {} THEN numGroupingSets
        ELSE CHOOSE i \in empties : \A j \in empties : i <= j

NewGroup(p, m, ub, numReset) ==
    LET phase == m.agg.phases[m.agg.current_phase]
        node == phase.aggnode
        hasGroupingSets == phase.numsets > 0
        numGroupingSets == Max2(phase.numsets, 1)
        m1 == [m EXCEPT !.agg.projected_set = 0]
        f == Call("fetch_input_tuple", <<p, m1>>)
        fetched == m1.agg.grp_firstTuple = <<>>
        \* the group's first tuple: the one kept from the last boundary or the
        \* one fetched now
        m2 == IF ~fetched THEN m1
              ELSE IF f.slot # <<>> THEN [f.m EXCEPT !.agg.grp_firstTuple = f.slot]
              ELSE IF hasGroupingSets
              THEN [f.m EXCEPT !.agg.input_done = TRUE,
                               !.agg.projected_set =
                                   FirstEmptySet(phase.gset_lengths, numGroupingSets)]
              ELSE [f.m EXCEPT !.agg.agg_done = TRUE]
        noinput == fetched /\ f.slot = <<>>
        m3 == Call("initialize_aggregates", <<m2, numReset>>)
        m4 == IF m3.agg.grp_firstTuple # <<>>
              THEN Call("GroupLoop", <<p, [m3 EXCEPT !.sortst.firstSlot = <<SlotOf(m3.agg.grp_firstTuple[1])>>,
                                           !.sortst.outertuple = <<SlotOf(m3.agg.grp_firstTuple[1])>>,
                                           !.agg.grp_firstTuple = <<>>], ub>>)
              ELSE m3
    IN  IF noinput /\ hasGroupingSets /\ m2.agg.projected_set >= numGroupingSets
        THEN Call("agg_retrieve_direct", <<p, m2, ub>>)
        ELSE IF noinput /\ ~hasGroupingSets /\ node.aggstrategy # "AGG_PLAIN"
        THEN [m2 EXCEPT !.ret = <<>>]
        ELSE IF m4.agg.error # "" THEN m4
        ELSE Call("DirectProject", <<m4>>)

\* projecting the next grouping set at every group boundary, whether or not
\* the super-group ends there
DirectBody_eager(p, m, ub, numReset) ==
    LET phase == m.agg.phases[m.agg.current_phase]
        node == phase.aggnode
        numGroupingSets == Max2(phase.numsets, 1)
        projected_set == m.agg.projected_set
        nextSetSize == IF projected_set >= 0 /\ projected_set < numGroupingSets - 1
                       THEN phase.gset_lengths[projected_set + 2] ELSE 0
    IN  IF m.agg.input_done
           \/ (node.aggstrategy # "AGG_PLAIN"
               /\ projected_set # -1
               /\ projected_set < numGroupingSets - 1
               /\ nextSetSize > 0)
        THEN Call("DirectProject", <<[m EXCEPT !.agg.projected_set = @ + 1]>>)
        ELSE Call("NewGroup", <<p, m, ub, numReset>>)

DirectBody(p, m, ub, numReset) ==
    LET phase == m.agg.phases[m.agg.current_phase]
        node == phase.aggnode
        numGroupingSets == Max2(phase.numsets, 1)
        projected_set == m.agg.projected_set
        nextSetSize == IF projected_set >= 0 /\ projected_set < numGroupingSets - 1
                       THEN phase.gset_lengths[projected_set + 2] ELSE 0
    IN  IF m.agg.input_done
           \/ (node.aggstrategy # "AGG_PLAIN"
               /\ projected_set # -1
               /\ projected_set < numGroupingSets - 1
               /\ nextSetSize > 0
               /\ ~execTuplesMatch(m.sortst.firstSlot[1], m.sortst.outertuple[1],
                                   nextSetSize, node.grpColIdx))
        THEN IF projected_set + 1 >= numGroupingSets
             THEN Err(m, "TRAP: projected_set < numGroupingSets")
             ELSE Call("DirectProject", <<[m EXCEPT !.agg.projected_set = @ + 1]>>)
        ELSE Call("NewGroup", <<p, m, ub, numReset>>)

\* a phase left only once projected_set has passed its last grouping set
agg_retrieve_direct_late(p, m, ub) ==
    IF m.agg.agg_done \/ m.agg.error # "" THEN [m EXCEPT !.ret = <<>>]
    ELSE LET numGroupingSets == NumGroupingSets(m)
             numReset == IF m.agg.projected_set >= 0
                            /\ m.agg.projected_set < numGroupingSets
                         THEN m.agg.projected_set + 1 ELSE numGroupingSets
         IN  IF m.agg.input_done /\ m.agg.projected_set >= numGroupingSets
             THEN IF m.agg.current_phase < m.agg.numphases - 1
                  THEN LET m1 == [Call("initialize_phase", <<m, m.agg.current_phase + 1>>)
                                     EXCEPT !.agg.input_done = FALSE,
                                            !.agg.projected_set = -1]
                       IN  Call("DirectBody", <<p, m1, ub, NumGroupingSets(m1)>>)
                  ELSE IF m.agg.aggstrategy = "AGG_MIXED"
                  THEN Call("agg_retrieve_hash_table", <<
                           [Call("initialize_phase", <<m, 0>>)
                               EXCEPT !.agg.table_filled = TRUE,
                                      !.perhash[1].hashiter = [cur |-> 1],
                                      !.agg.current_set = 0]>>)
                  ELSE [m EXCEPT !.agg.agg_done = TRUE, !.ret = <<>>]
             ELSE Call("DirectBody", <<p, m, ub, numReset>>)

agg_retrieve_direct(p, m, ub) ==
    IF m.agg.agg_done \/ m.agg.error # "" THEN [m EXCEPT !.ret = <<>>]
    ELSE LET numGroupingSets == NumGroupingSets(m)
             numReset == IF m.agg.projected_set >= 0
                            /\ m.agg.projected_set < numGroupingSets
                         THEN m.agg.projected_set + 1 ELSE numGroupingSets
         IN  IF m.agg.input_done /\ m.agg.projected_set >= numGroupingSets - 1
             THEN IF m.agg.current_phase < m.agg.numphases - 1
                  THEN LET m1 == [Call("initialize_phase", <<m, m.agg.current_phase + 1>>)
                                     EXCEPT !.agg.input_done = FALSE,
                                            !.agg.projected_set = -1]
                       IN  Call("DirectBody", <<p, m1, ub, NumGroupingSets(m1)>>)
                  ELSE IF m.agg.aggstrategy = "AGG_MIXED"
                  THEN Call("agg_retrieve_hash_table", <<
                           [Call("initialize_phase", <<m, 0>>)
                               EXCEPT !.agg.table_filled = TRUE,
                                      !.perhash[1].hashiter = [cur |-> 1],
                                      !.agg.current_set = 0]>>)
                  ELSE [m EXCEPT !.agg.agg_done = TRUE, !.ret = <<>>]
             ELSE Call("DirectBody", <<p, m, ub, numReset>>)

(***************************************************************************)
(* ExecAgg.                                                                *)
(***************************************************************************)
ExecAggProc(p, m, ub) ==
    IF ~m.agg.agg_done
    THEN LET aggstrategy == m.agg.phases[m.agg.current_phase].aggstrategy
         IN  IF aggstrategy = "AGG_HASHED"
             THEN Call("agg_retrieve_hash_table", <<IF ~m.agg.table_filled
                                          THEN Call("agg_fill_hash_table", <<p, m, ub>>) ELSE m>>)
             ELSE IF aggstrategy = "AGG_MIXED"
             THEN Call("agg_retrieve_hash_table", <<m>>)
             ELSE Call("agg_retrieve_direct", <<p, m, ub>>)
    ELSE [m EXCEPT !.ret = <<>>]

(***************************************************************************)
(* Call: the functions of the executor by name.  ExecAgg's call graph is   *)
(* deep and its functions are shared between the strategies; a call names  *)
(* its callee and hands over the argument list.                            *)
(***************************************************************************)
Call(fn, a) ==
    CASE fn = "initialize_phase" -> initialize_phase(a[1], a[2])
      [] fn = "ExecInitAgg" -> ExecInitAgg(a[1])
      [] fn = "InitAggs" -> InitAggs(a[1], a[2], a[3])
      [] fn = "fetch_input_tuple" -> fetch_input_tuple(a[1], a[2])
      [] fn = "initialize_aggregates" -> initialize_aggregates(a[1], a[2])
      [] fn = "advance_aggregates" -> advance_aggregates(a[1], a[2], a[3], a[4])
      [] fn = "combine_aggregates" -> combine_aggregates(a[1], a[2], a[3])
      [] fn = "finalize_aggregates" -> finalize_aggregates(a[1], a[2])
      [] fn = "prepare_projection_slot" -> prepare_projection_slot(a[1], a[2], a[3])
      [] fn = "project_aggregates" -> project_aggregates(a[1], a[2], a[3], a[4])
      [] fn = "DumpEntry" -> DumpEntry(a[1], a[2], a[3], a[4], a[5])
      [] fn = "DumpHybridHashtable" -> DumpHybridHashtable(a[1], a[2], a[3])
      [] fn = "LoadRecord" -> LoadRecord(a[1], a[2], a[3], a[4], a[5])
      [] fn = "LoadHybridHashtable" -> LoadHybridHashtable(a[1], a[2])
      [] fn = "dump_hashtable_if_spilled" -> dump_hashtable_if_spilled(a[1], a[2])
      [] fn = "lookup_hash_entry" -> lookup_hash_entry(a[1], a[2], a[3])
      [] fn = "lookup_hash_entries" -> lookup_hash_entries(a[1], a[2], a[3])
      [] fn = "agg_fill_hash_table" -> agg_fill_hash_table(a[1], a[2], a[3])
      [] fn = "FillRowProc" -> FillRowProc(a[1], a[2], a[3])
      [] fn = "agg_retrieve_hash_table" -> agg_retrieve_hash_table(a[1])
      [] fn = "GroupLoop" -> GroupLoop(a[1], a[2], a[3])
      [] fn = "DirectProject" -> DirectProject(a[1])
      [] fn = "NewGroup" -> NewGroup(a[1], a[2], a[3], a[4])
      [] fn = "DirectBody" -> DirectBody(a[1], a[2], a[3], a[4])
      [] fn = "agg_retrieve_direct" -> agg_retrieve_direct(a[1], a[2], a[3])
      [] fn = "ExecAggProc" -> ExecAggProc(a[1], a[2], a[3])

(***************************************************************************)
(* The state machine: one AggState, the caller invoking ExecAgg until it   *)
(* has seen end-of-stream 1 + MaxEosCalls times.  An ERROR leaves ExecAgg  *)
(* by longjmp: pc = "error", nothing is returned.                          *)
(***************************************************************************)
Machine ==
    [agg |-> agg, pergroup |-> pergroup, sortst |-> sortst, perhash |-> perhash,
     spill |-> spill, calls |-> calls, ret |-> <<>>]

UBOutcomes == {"crash", "lost"}

NullsReturned == Len(SelectSeq(out, LAMBDA r : r = <<>>))

ExecAgg ==
    /\ pc = "idle"
    /\ NullsReturned <= MaxEosCalls
    /\ Len(out) < MaxCalls
    /\ \E ub \in UBOutcomes :
          \E r \in {Call("ExecAggProc", <<plan, Machine, ub>>)} :
              /\ agg' = r.agg
              /\ pergroup' = r.pergroup
              /\ sortst' = r.sortst
              /\ perhash' = r.perhash
              /\ spill' = r.spill
              /\ calls' = r.calls
              /\ pc' = IF r.agg.error # "" THEN "error" ELSE "idle"
              /\ out' = IF r.agg.error # "" THEN out ELSE Append(out, r.ret)
    /\ UNCHANGED <<plan, rd_state, tmpfiles, worker>>

Next == ExecAgg

InitOf(p) ==
    \E m \in {Call("ExecInitAgg", <<p>>)} :
        /\ plan = p
        /\ pc = IF m.agg.error # "" THEN "error" ELSE "idle"
        /\ agg = m.agg
        /\ pergroup = m.pergroup
        /\ sortst = m.sortst
        /\ perhash = m.perhash
        /\ spill = m.spill
        /\ calls = m.calls
        /\ out = <<>>
        \* not a parallel worker: aggstate->state is NULL
        /\ rd_state = "NULL"
        /\ tmpfiles = <<>>
        /\ worker = <<>>

(***************************************************************************)
(* Inputs and plans.                                                       *)
(***************************************************************************)
MkRow(i, k1, k2, v) ==
    [k |-> <<k1, k2>>, v |-> v, m |-> Dat(Pow2(i - 1)), st |-> <<>>]

Vals == {NullDatum} \cup {Dat(x) : x \in 1..NumVals}

\* the child's rows: K1, K2, V are the values the columns may take
Inputs(K1, K2, V) ==
    UNION {{[i \in 1..n |-> MkRow(i, f[i][1], f[i][2], f[i][3])] :
               f \in [1..n -> K1 \X K2 \X V]} : n \in 0..MaxRows}

AggNode(strategy, cols, gsets) ==
    [aggstrategy |-> strategy, grpColIdx |-> cols, groupingSets |-> gsets,
     hybrid |-> FALSE, entrySize |-> 1024]

Aggref(fn) ==
    [aggfnoid |-> fn, arg |-> AggForm(fn).arg, aggdistinct |-> FALSE,
     aggorder |-> FALSE, aggfilter |-> "", volatile |-> FALSE]

\* the child of a node that does not start by hashing delivers its rows in
\* the order of the first sorted phase; chunks are the inputs of the partial
\* aggregations below a combining node (none otherwise)
MkPlan(node, chain, aggs, input) ==
    [node |-> node, chain |-> chain, aggs |-> aggs, aggsplit |-> AGGSPLIT_SIMPLE,
     g_hybrid_hash_agg |-> FALSE, work_mem |-> 1,
     g_default_hashagg_nbatches |-> 1,
     chunks |-> <<>>,
     input |-> IF node.aggstrategy = "AGG_SORTED"
               THEN tuplesort_performsort(input, node.grpColIdx)
               ELSE IF node.aggstrategy = "AGG_MIXED"
               THEN tuplesort_performsort(input,
                        SelectSeq(chain, LAMBDA n : n.aggstrategy # "AGG_HASHED")[1].grpColIdx)
               ELSE input]

\* the hybrid annotation of every hashed node, the GUCs
WithHybrid(p, g, hybrid, E, B) ==
    LET mark(n) == IF n.aggstrategy \in {"AGG_HASHED", "AGG_MIXED"}
                   THEN [n EXCEPT !.hybrid = hybrid, !.entrySize = 1024 \div E]
                   ELSE n
    IN  [p EXCEPT !.node = mark(@),
                  !.chain = [i \in DOMAIN @ |-> mark(@[i])],
                  !.g_hybrid_hash_agg = g,
                  !.g_default_hashagg_nbatches = B]

(***************************************************************************)
(* SpecHash: hashed grouping on column 1, alone (AGG_HASHED) or next to    *)
(* one or two sorted phases (AGG_MIXED), with every setting of             *)
(* g_hybrid_hash_agg and of the plan's hybrid annotation.                  *)
(***************************************************************************)
HashAggs == <<Aggref("count_star"), Aggref("summ"), Aggref("min")>>

HashShapes ==
    {"hashed", "mixed1", "mixed2"}

HashPlan(shape, input) ==
    CASE shape = "hashed" ->
            MkPlan(AggNode("AGG_HASHED", <<1>>, <<>>), <<>>, HashAggs, input)
      [] shape = "mixed1" ->
            MkPlan(AggNode("AGG_MIXED", <<1>>, <<1>>),
                   <<AggNode("AGG_SORTED", <<2>>, <<1, 0>>)>>, HashAggs, input)
      [] shape = "mixed2" ->
            MkPlan(AggNode("AGG_MIXED", <<1>>, <<1>>),
                   <<AggNode("AGG_SORTED", <<2>>, <<1>>),
                     AggNode("AGG_SORTED", <<1, 2>>, <<2>>)>>, HashAggs, input)

HybridSettings ==
    {<<g, h, E, B>> \in BOOLEAN \X BOOLEAN \X (1..MaxEntries) \X (1..MaxBatches) :
        h \/ (E = 1 /\ B = 1)}

HashVals == {NullDatum, Dat(NumVals)}

InitHash ==
    \E shape \in HashShapes, input \in Inputs(1..NumKeys, {1}, HashVals),
       hs \in HybridSettings :
        InitOf(WithHybrid(HashPlan(shape, input), hs[1], hs[2], hs[3], hs[4]))

SpecHash == InitHash /\ [][Next]_vars

(***************************************************************************)
(* What the caller has seen.                                               *)
(***************************************************************************)
OutRows == LET rs == SelectSeq(out, LAMBDA r : r # <<>>)
           IN  [i \in 1..Len(rs) |-> rs[i][1]]

EndOfStream == pc = "idle" /\ NullsReturned >= 1

\* the rows emitted for the grouping set over the columns cols
RowsOfSet(rows, cols) == SelectSeq(rows, LAMBDA r : r.cols = cols)

\* the input rows of one group of the grouping set over cols
GroupOf(input, cols, key) ==
    SelectSeq(input, LAMBDA row : \A c \in cols : row.k[c] = key[c])

GroupKeys(input, cols) ==
    {[c \in 1..2 |-> IF c \in cols THEN input[i].k[c] ELSE 0] : i \in 1..Len(input)}

RowSum(rows) == SeqSum([i \in 1..Len(rows) |-> rows[i].m.val])

Spilled(setno) == perhash[setno + 1].hashtable.spilled

(***************************************************************************)
(* A whole execution as a function of the plan: ExecInitAgg, then ExecAgg  *)
(* until it returns NULL.  The rows returned, in order.                    *)
(***************************************************************************)
RECURSIVE RunFrom(_, _, _)
\* r is the machine as the latest call of ExecAgg left it
RunFrom(p, r, acc) ==
    IF r.agg.error # "" \/ r.ret = <<>> THEN acc
    ELSE RunFrom(p, Call("ExecAggProc", <<p, r, "crash">>), Append(acc, r.ret[1]))

RunAgg(p) ==
    RunFrom(p, Call("ExecAggProc", <<p, Call("ExecInitAgg", <<p>>), "crash">>), <<>>)

\* the same plan with plain hash tables, which grow without bound
InMemory(p) == WithHybrid(p, FALSE, FALSE, 1, 1)

(***************************************************************************)
(* C1: with hybrid spilling active on a hashed grouping set (AGG_HASHED or *)
(* AGG_MIXED), at end-of-stream every distinct key of the input has been   *)
(* emitted exactly once for that set, and the one row of a key carries the *)
(* aggregates over all the input rows of the key: count_star their number, *)
(* sum(m) the sum of their (pairwise distinct, power of two) m values.     *)
(***************************************************************************)
C1_SpilledKeysEmittedOnce ==
    (EndOfStream /\ plan.g_hybrid_hash_agg /\ Spilled(0)) =>
        LET rows == RowsOfSet(OutRows, {1})
        IN  /\ Len(rows) = Cardinality(GroupKeys(plan.input, {1}))
            /\ \A key \in GroupKeys(plan.input, {1}) :
                  LET hit == SelectSeq(rows, LAMBDA r : r.key = key)
                      grp == GroupOf(plan.input, {1}, key)
                  IN  /\ Len(hit) = 1
                      /\ hit[1].aggs[1] = Dat(Len(grp))
                      /\ hit[1].aggs[2] = Dat(RowSum(grp))

(***************************************************************************)
(* C2: an AGG_HASHED aggregation run with hybrid spilling returns the same *)
(* multiset of rows as the same aggregation over a hash table that never   *)
(* overflows (count, sum and min all combine by folding).                  *)
(***************************************************************************)
C2_HybridMatchesInMemory ==
    (EndOfStream /\ plan.node.aggstrategy = "AGG_HASHED"
     /\ plan.g_hybrid_hash_agg /\ plan.node.hybrid) =>
        SeqToBag(OutRows) = SeqToBag(RunAgg(InMemory(plan)))

(***************************************************************************)
(* C3: with g_hybrid_hash_agg false no hash table ever spills, whatever    *)
(* the hybrid annotation of the plan: no table is dumped and no batch file *)
(* is written.                                                             *)
(***************************************************************************)
C3_NoSpillWithoutFlag ==
    ~plan.g_hybrid_hash_agg =>
        /\ calls.dumps = 0
        /\ spill.files = <<>>
        /\ \A i \in 1..Len(perhash) : ~perhash[i].hashtable.spilled

(***************************************************************************)
(* SpecStrat: the four strategies over plain hash tables.  Simple plans    *)
(* group by one key (or by nothing: AGG_PLAIN); grouping-set plans are a   *)
(* rollup in one sorted phase, rollups over two sorted phases, two hashed  *)
(* sets, and mixed plans.                                                  *)
(***************************************************************************)
StratAggs ==
    <<Aggref("count_star"), Aggref("summ"), [Aggref("max") EXCEPT !.arg = "m"]>>

KeyLists == {<<1>>, <<2>>, <<1, 2>>}

SimplePlan(strategy, cols, aggs, input) ==
    MkPlan(AggNode(strategy, cols, <<>>), <<>>, aggs, input)

\* hashed grouping by cols next to a sorted phase for the empty set
MixedPlan(cols, aggs, input) ==
    MkPlan(AggNode("AGG_MIXED", cols, <<Len(cols)>>),
           <<AggNode("AGG_SORTED", <<>>, <<0>>)>>, aggs, input)

SimplePlans(aggs, input) ==
    {SimplePlan("AGG_PLAIN", <<>>, aggs, input)}
    \cup {SimplePlan(st, cols, aggs, input) :
             st \in {"AGG_SORTED", "AGG_HASHED"}, cols \in KeyLists}
    \cup {MixedPlan(cols, aggs, input) : cols \in KeyLists}

GroupingSetPlans(aggs, input) ==
    { MkPlan(AggNode("AGG_SORTED", <<1, 2>>, <<2, 1, 0>>), <<>>, aggs, input),
      MkPlan(AggNode("AGG_SORTED", <<1>>, <<1, 0>>),
             <<AggNode("AGG_SORTED", <<2>>, <<1>>)>>, aggs, input),
      MkPlan(AggNode("AGG_SORTED", <<1>>, <<1>>),
             <<AggNode("AGG_SORTED", <<2>>, <<1, 0>>)>>, aggs, input),
      MkPlan(AggNode("AGG_HASHED", <<1>>, <<1>>),
             <<AggNode("AGG_HASHED", <<2>>, <<1>>)>>, aggs, input),
      MkPlan(AggNode("AGG_MIXED", <<1>>, <<1>>),
             <<AggNode("AGG_SORTED", <<2>>, <<1, 0>>)>>, aggs, input),
      MkPlan(AggNode("AGG_MIXED", <<1>>, <<1>>),
             <<AggNode("AGG_HASHED", <<2>>, <<1>>),
               AggNode("AGG_SORTED", <<1, 2>>, <<2>>),
               AggNode("AGG_SORTED", <<>>, <<0>>)>>, aggs, input) }

InitStrat ==
    \E input \in Inputs(1..NumKeys, 1..NumKeys, {NullDatum}) :
        \E p \in SimplePlans(StratAggs, input) \cup GroupingSetPlans(StratAggs, input) :
            InitOf(p)

SpecStrat == InitStrat /\ [][Next]_vars

\* the grouping sets of a plan, as sets of columns
PlanSets(p) ==
    LET nodes == <<p.node>> \o p.chain
        sets(n) == IF n.groupingSets = <<>> \/ n.aggstrategy \in {"AGG_HASHED", "AGG_MIXED"}
                   THEN {ColSet(n.grpColIdx, Len(n.grpColIdx))}
                   ELSE {ColSet(n.grpColIdx, n.groupingSets[j]) :
                            j \in 1..Len(n.groupingSets)}
    IN  UNION {sets(nodes[i]) : i \in 1..Len(nodes)}

HasGroupingSets(p) == p.node.groupingSets # <<>>

ColList(cols) == CHOOSE l \in KeyLists \cup {<<>>} : ColSet(l, Len(l)) = cols

\* the aggregation of the same input that groups by exactly cols
SeparatePlan(p, cols) ==
    SimplePlan(IF cols = {} THEN "AGG_PLAIN" ELSE "AGG_SORTED", ColList(cols),
               p.aggs, p.input)

(***************************************************************************)
(* C4: once ExecAgg has returned NULL, every later call returns NULL,      *)
(* emits no row and leaves the aggregation state as it is.                 *)
(***************************************************************************)
C4_NullIsFinal ==
    [][(pc = "idle" /\ NullsReturned >= 1) =>
          /\ out' = Append(out, <<>>)
          /\ pc' = "idle"
          /\ UNCHANGED <<agg, pergroup, sortst, perhash, spill, calls>>]_vars

C4_CalledAfterNull ==
    /\ pc = "idle" /\ NullsReturned >= 2
    /\ plan.node.aggstrategy = "AGG_MIXED" /\ Len(OutRows) >= 2

(***************************************************************************)
(* C5: for a group-by key the applicable strategies return the same        *)
(* multiset of rows: AGG_SORTED over the input ordered by the key,         *)
(* AGG_HASHED, and the hashed set of an AGG_MIXED plan; with no key,       *)
(* AGG_PLAIN and the empty set of the AGG_MIXED plan.                      *)
(***************************************************************************)
IsSimple(p) == p.chain = <<>> \/ p.chain = <<AggNode("AGG_SORTED", <<>>, <<0>>)>>

StrategyRuns(p, cols) ==
    IF cols = <<>>
    THEN {SeqToBag(RunAgg(SimplePlan("AGG_PLAIN", <<>>, p.aggs, p.input))),
          SeqToBag(RowsOfSet(RunAgg(MixedPlan(<<1>>, p.aggs, p.input)), {}))}
    ELSE {SeqToBag(RunAgg(SimplePlan("AGG_SORTED", cols, p.aggs, p.input))),
          SeqToBag(RunAgg(SimplePlan("AGG_HASHED", cols, p.aggs, p.input))),
          SeqToBag(RowsOfSet(RunAgg(MixedPlan(cols, p.aggs, p.input)),
                             ColSet(cols, Len(cols))))}

C5_StrategiesAgree ==
    (EndOfStream /\ IsSimple(plan)) =>
        \A cols \in PlanSets(plan) :
            \A b \in StrategyRuns(plan, ColList(cols)) :
                SeqToBag(RowsOfSet(OutRows, cols)) = b

C5_TwoGroupsHashed ==
    /\ EndOfStream /\ plan.node.aggstrategy = "AGG_HASHED" /\ plan.chain = <<>>
    /\ plan.node.grpColIdx = <<1, 2>> /\ Len(OutRows) >= 2 /\ Len(plan.input) = MaxRows

(***************************************************************************)
(* C6: in a grouping-set plan the rows emitted for a grouping set are      *)
(* those of grouping the input by exactly the columns of the set: one row  *)
(* per distinct value of these columns, with the other grouping columns    *)
(* null and the aggregates taken over all the rows of the group; the empty *)
(* set gives one row over the whole input.                                 *)
(***************************************************************************)
MaxOf(S) == CHOOSE x \in S : \A y \in S : y <= x

GroupRow(input, cols, key) ==
    LET grp == GroupOf(input, cols, key)
    IN  [cols |-> cols, key |-> key,
         aggs |-> <<Dat(Len(grp)),
                    IF grp = <<>> THEN NullDatum ELSE Dat(RowSum(grp)),
                    IF grp = <<>> THEN NullDatum
                    ELSE Dat(MaxOf({grp[i].m.val : i \in 1..Len(grp)}))>>]

GroupedBy(input, cols) ==
    IF cols = {} THEN {GroupRow(input, {}, <<0, 0>>)}
    ELSE {GroupRow(input, cols, key) : key \in GroupKeys(input, cols)}

C6_GroupingSetsSeparate ==
    (EndOfStream /\ HasGroupingSets(plan)) =>
        /\ \A i \in 1..Len(OutRows) : OutRows[i].cols \in PlanSets(plan)
        /\ \A cols \in PlanSets(plan) :
              SeqToBag(RowsOfSet(OutRows, cols)) = SetToBag(GroupedBy(plan.input, cols))

C6_RollupEmitted ==
    /\ EndOfStream /\ plan.node.aggstrategy = "AGG_SORTED"
    /\ plan.node.groupingSets = <<2, 1, 0>>
    /\ Len(OutRows) >= 6

(***************************************************************************)
(* C10: on empty input the phases read by agg_retrieve_direct emit one row *)
(* for every empty grouping set (and one for AGG_PLAIN without grouping    *)
(* sets) and no row for a grouping set with a key column.                  *)
(***************************************************************************)
EmptySets(p) ==
    IF p.node.aggstrategy = "AGG_PLAIN" /\ ~HasGroupingSets(p) THEN 1
    ELSE SeqSum([i \in 1..Len(SortNodes(p)) |->
                    Cardinality({j \in 1..Len(SortNodes(p)[i].groupingSets) :
                                    SortNodes(p)[i].groupingSets[j] = 0})])

C10_EmptyInputRows ==
    (EndOfStream /\ plan.input = <<>>) =>
        /\ Len(OutRows) = EmptySets(plan)
        /\ \A i \in 1..Len(OutRows) : OutRows[i].cols = {}

C10_EmptySetInSecondPhase ==
    /\ EndOfStream /\ plan.input = <<>> /\ Len(OutRows) = 1
    /\ agg.current_phase = 2 /\ plan.node.aggstrategy = "AGG_SORTED"

(***************************************************************************)
(* SpecStrict: aggregates with a strict transition function and a null     *)
(* initial value (max, and plsum: int4pl over v), computed by AGG_PLAIN,   *)
(* AGG_SORTED and AGG_HASHED over an argument column with nulls.           *)
(***************************************************************************)
StrictAggs == <<Aggref("max"), Aggref("plsum")>>

InitStrict ==
    \E input \in Inputs(1..NumKeys, {1}, Vals) :
        \E p \in {SimplePlan("AGG_PLAIN", <<>>, StrictAggs, input),
                  SimplePlan("AGG_SORTED", <<1>>, StrictAggs, input),
                  SimplePlan("AGG_HASHED", <<1>>, StrictAggs, input)} :
            InitOf(p)

SpecStrict == InitStrict /\ [][Next]_vars

(***************************************************************************)
(* C8: with a strict transition function and a null initial value the      *)
(* result of a group is the fold of the function over its non-null inputs: *)
(* null inputs are passed over, the first non-null input is the state, and *)
(* the function is called once for every further non-null input.           *)
(***************************************************************************)
NonNull(vals) == SelectSeq(vals, LAMBDA d : ~d.isnull)

RECURSIVE FoldFrom(_, _, _)
FoldFrom(fn, state, vals) ==
    IF vals = <<>> THEN state
    ELSE FoldFrom(fn, FunctionCallInvoke(fn, state, Head(vals)), Tail(vals))

StrictFold(fn, vals) ==
    IF NonNull(vals) = <<>> THEN NullDatum
    ELSE FoldFrom(fn, Head(NonNull(vals)), Tail(NonNull(vals)))

FurtherNonNull(vals) == IF NonNull(vals) = <<>> THEN 0 ELSE Len(NonNull(vals)) - 1

PlanCols(p) == ColSet(p.node.grpColIdx, Len(p.node.grpColIdx))

\* the groups of a simple plan: one over the whole input without a key
PlanGroups(p) ==
    IF PlanCols(p) = {} THEN {<<0, 0>>} ELSE GroupKeys(p.input, PlanCols(p))

ValsOf(rows) == [i \in 1..Len(rows) |-> rows[i].v]

C8_StrictNullInit ==
    (EndOfStream /\ plan.aggs = StrictAggs) =>
        /\ SeqToBag(OutRows) =
              SetToBag({[cols |-> PlanCols(plan), key |-> key,
                         aggs |-> [t \in 1..Len(plan.aggs) |->
                                     StrictFold(agg.pertrans[t].transfn_oid,
                                                ValsOf(GroupOf(plan.input, PlanCols(plan), key)))]] :
                           key \in PlanGroups(plan)})
        /\ calls.trans =
              Len(plan.aggs) * SeqSum([i \in 1..Len(OutRows) |->
                  FurtherNonNull(ValsOf(GroupOf(plan.input, PlanCols(plan), OutRows[i].key)))])

C8_NullThenTwoValues ==
    /\ EndOfStream /\ plan.aggs = StrictAggs /\ plan.node.aggstrategy = "AGG_SORTED"
    /\ Len(OutRows) = 1 /\ Len(plan.input) = 3
    /\ plan.input[1].v.isnull /\ ~plan.input[2].v.isnull /\ ~plan.input[3].v.isnull
    /\ calls.trans = 2

(***************************************************************************)
(* SpecDistinct: one DISTINCT aggregate with or without a FILTER, in an    *)
(* AGG_PLAIN or AGG_SORTED plan: count(DISTINCT v) and sum(DISTINCT v) go  *)
(* through process_ordered_aggregate_single, regr_count(DISTINCT v, k1)    *)
(* and string_agg(DISTINCT v, k1) through process_ordered_aggregate_multi. *)
(***************************************************************************)
DistinctAggs == {"count", "sum", "regr_count", "string_agg"}

DistinctAggref(fn, filter) ==
    [Aggref(fn) EXCEPT !.aggdistinct = TRUE, !.aggfilter = filter]

InitDistinct ==
    \E input \in Inputs(1..NumKeys, {1}, Vals), fn \in DistinctAggs,
       filter \in {"", "m>1"} :
        \E p \in {SimplePlan("AGG_PLAIN", <<>>, <<DistinctAggref(fn, filter)>>, input),
                  SimplePlan("AGG_SORTED", <<1>>, <<DistinctAggref(fn, filter)>>, input)} :
            InitOf(p)

SpecDistinct == InitDistinct /\ [][Next]_vars

(***************************************************************************)
(* C9: a DISTINCT aggregate applies its transition function once for every *)
(* distinct argument tuple among the rows of the group that pass the       *)
(* FILTER and are not skipped for strictness, two nulls being equal; its   *)
(* result is the aggregate of these distinct tuples.                       *)
(***************************************************************************)
DistinctArgs(aggref, rows) ==
    LET pass == SelectSeq(rows, LAMBDA row : EvalFilter(aggref.aggfilter, row))
        all == {ArgsOf(pass[i], aggref.arg) : i \in 1..Len(pass)}
    IN  IF FnStrict(AggForm(aggref.aggfnoid).aggtransfn)
        THEN {a \in all : \A j \in 1..Len(a) : ~a[j].isnull}
        ELSE all

\* the distinct tuples in the order of the sort
InSortOrder(T) ==
    CHOOSE q \in [1..Cardinality(T) -> T] :
        \A i, j \in 1..Cardinality(T) : i < j => TupleLess(q[i], q[j])

DistinctResult(aggref, T) ==
    LET first == [i \in 1..Cardinality(T) |-> InSortOrder(T)[i][1]]
        form == AggForm(aggref.aggfnoid)
    IN  IF aggref.aggfnoid \in {"count", "regr_count"} THEN Dat(Cardinality(T))
        ELSE IF NonNull(first) = <<>> THEN NullDatum
        ELSE IF aggref.aggfnoid = "sum"
        THEN Dat(SeqSum([i \in 1..Len(NonNull(first)) |-> NonNull(first)[i].val]))
        ELSE FoldFrom("string_agg_transfn", NullDatum, first)

SplitAggs == <<Aggref("count"), Aggref("sum"), Aggref("max"), Aggref("avg")>>

RECURSIVE Concat(_)
Concat(ss) == IF ss = <<>> THEN <<>> ELSE Head(ss) \o Concat(Tail(ss))

Cuts(n) ==
    {c \in [0..NumChunks -> 0..n] :
        /\ c[0] = 0 /\ c[NumChunks] = n
        /\ \A i \in 1..NumChunks : c[i - 1] <= c[i]}

ChunksOf(input, c) == [i \in 1..NumChunks |-> SubSeq(input, c[i - 1] + 1, c[i])]

\* the rows a partial aggregation hands up: the group's key and its states
StateRows(rows) ==
    [i \in 1..Len(rows) |->
        [k |-> rows[i].key, v |-> NullDatum, m |-> NullDatum, st |-> rows[i].aggs]]

PartialRows(strategy, cols, aggs, chunk) ==
    StateRows(RunAgg([SimplePlan(strategy, cols, aggs, chunk)
                         EXCEPT !.aggsplit = AGGSPLIT_INITIAL_SERIAL]))

SplitPlan(partial, final, cols, aggs, chunks) ==
    [SimplePlan(final, cols, aggs,
                Concat([i \in 1..Len(chunks) |-> PartialRows(partial, cols, aggs, chunks[i])]))
        EXCEPT !.aggsplit = AGGSPLIT_FINAL_DESERIAL, !.chunks = chunks]

SplitShapes ==
    {<<"AGG_PLAIN", "AGG_PLAIN", <<>>>>}
    \cup {<<partial, final, <<1>>>> : partial \in {"AGG_SORTED", "AGG_HASHED"},
                                      final \in {"AGG_SORTED", "AGG_HASHED"}}

InitSplit ==
    \E input \in Inputs(1..NumKeys, {1}, HashVals), sh \in SplitShapes :
        \E c \in Cuts(Len(input)) :
            InitOf(SplitPlan(sh[1], sh[2], sh[3], SplitAggs, ChunksOf(input, c)))

SpecSplit == InitSplit /\ [][Next]_vars

(***************************************************************************)
(* C7: partial aggregation of the chunks (no final function, states        *)
(* serialized) followed by one combining, deserializing aggregation gives  *)
(* every group the result of a single aggregation pass over all the rows,  *)
(* also when a chunk hands up a null or unseeded state.                    *)
(***************************************************************************)
SinglePass(p) ==
    SimplePlan(IF p.node.grpColIdx = <<>> THEN "AGG_PLAIN" ELSE "AGG_SORTED",
               p.node.grpColIdx, p.aggs, Concat(p.chunks))

C7_SplitEqualsSinglePass ==
    (EndOfStream /\ plan.aggsplit.combine) =>
        SeqToBag(OutRows) = SeqToBag(RunAgg(SinglePass(plan)))

C7_UnseededChunkCombined ==
    /\ EndOfStream /\ plan.aggsplit.combine /\ plan.node.aggstrategy = "AGG_PLAIN"
    /\ plan.chunks[1] = <<>>
    /\ Len(plan.chunks[2]) = 1 /\ plan.chunks[2][1].v.isnull
    /\ Len(plan.chunks[NumChunks]) = 2 /\ ~plan.chunks[NumChunks][1].v.isnull
    /\ Len(OutRows) = 1 /\ ~OutRows[1].aggs[3].isnull

(***************************************************************************)
(* SpecSpill: the hybrid hash table one input row at a time.  FillRow is   *)
(* one round of the loop of agg_fill_hash_table (fetch a row, find or make *)
(* its entry, advance the aggregates); once the child has no more rows,    *)
(* ExecAgg does the rest of the call (dump what is left, reload a batch,   *)
(* return a group) and the later calls.  Hashed grouping on column 1 with  *)
(* keys 1..NumSpillKeys, every table capacity the sizing step computes     *)
(* from work_mem = 1 (kB) and entrySize (2048 bytes: no entry fits), and   *)
(* 1..MaxBatches batch files.                                              *)
(***************************************************************************)
NumSpillKeys == 4

InputLeft == ~agg.table_filled /\ sortst.child < Len(plan.input)

FillRow ==
    /\ pc = "idle"
    /\ InputLeft
    /\ \E ub \in UBOutcomes :
          \E r \in {Call("FillRowProc", <<plan, Machine, ub>>)} :
              /\ agg' = r.agg
              /\ pergroup' = r.pergroup
              /\ sortst' = r.sortst
              /\ perhash' = r.perhash
              /\ spill' = r.spill
              /\ calls' = r.calls
              /\ pc' = IF r.agg.error # "" THEN "error" ELSE "idle"
    /\ UNCHANGED <<plan, out, rd_state, tmpfiles, worker>>

Drain == ~InputLeft /\ ExecAgg

NextSpill == FillRow \/ Drain

EntrySizeFor(E) == IF E = 0 THEN 2048 ELSE 1024 \div E

SpillPlan(aggs, input, E, B) ==
    LET p == WithHybrid(MkPlan(AggNode("AGG_HASHED", <<1>>, <<>>), <<>>, aggs, input),
                        TRUE, TRUE, 1, B)
    IN  [p EXCEPT !.node.entrySize = EntrySizeFor(E)]

InitSpill ==
    \E input \in Inputs(1..NumSpillKeys, {1}, HashVals),
       E \in 0..MaxEntries, B \in 1..MaxBatches :
        InitOf(SpillPlan(HashAggs, input, E, B))

SpecSpill == InitSpill /\ [][NextSpill]_vars

(***************************************************************************)
(* Redistribution between parallel workers (the __TBASE__ part of          *)
(* agg_fill_hash_table and the ReDistribute functions).  Every launched    *)
(* worker runs agg_fill_hash_table over its own child; `state` is the      *)
(* shared memory they all see, `tmpfiles` the temporary files, `worker`    *)
(* what is private to each process.  A row is its redistribution key and   *)
(* an identity <<worker, ordinal>>; the rows a worker hands to             *)
(* lookup_hash_entries are collected in worker[w].rows.  The sizes are     *)
(* bytes.                                                                  *)
(***************************************************************************)
MaxWorkers == 3                 \* launched workers: 2..MaxWorkers
MaxChildRows == 2               \* rows the child of one worker produces, at most
MaxRedistRows == 2              \* rows all the children produce together, at most
ReDistributeBufferSize == 32    \* bytes of one ring buffer
SizeofInt == 4
DataLen == 12                   \* bytes of one row's data

\* enum ReDistributeStatus, in the order the comparisons of the code rely on
ReDistribute_Error == 0
ReDistribute_None == 1
ReDistribute_Init == 2
ReDistribute_ProduceDone == 3
ReDistribute_ConsumeDone == 4

DataTypes == {"DT_DataRow", "DT_MinimalTup", "DT_HeapTup"}

\* 2^e modulo m
RECURSIVE Pow2Mod(_, _)
Pow2Mod(e, m) == IF e = 0 THEN 1 % m ELSE (2 * Pow2Mod(e - 1, m)) % m

\* ((unsigned int) x) % m for an int32 x: a negative x stands for x + 2^32
Uint32Mod(x, m) == IF x >= 0 THEN x % m ELSE ((x % m) + Pow2Mod(32, m)) % m

\* a % b of C for b > 0: the remainder has the sign of a
CRem(a, b) == IF a >= 0 THEN a % b ELSE -((-a) % b)

\* (int16) x and (int32) (char) x for an int32 x
Int16Of(x) == ((x + 32768) % 65536) - 32768
CharOf(x) == ((x + 128) % 256) - 128

\* the type Oids the switch names; any other Oid stands for a type it does
\* not name
IntegerLikeTypes ==
    {"INT8OID", "CASHOID", "INT2OID", "OIDOID", "INT4OID", "ABSTIMEOID", "RELTIMEOID",
     "DATEOID", "BOOLOID", "CHAROID", "TIMEOID", "TIMESTAMPOID", "TIMESTAMPTZOID"}

\* the block of the switch that the case label of dataType stands before,
\* in source order; NumHashBlocks is the default block
NumHashBlocks == 7

HashCaseBlock(dataType) ==
    CASE dataType \in {"INT8OID", "CASHOID"} -> 1
      [] dataType = "INT2OID" -> 2
      [] dataType = "OIDOID" -> 3
      [] dataType \in {"INT4OID", "ABSTIMEOID", "RELTIMEOID", "DATEOID"} -> 4
      [] dataType \in {"BOOLOID", "CHAROID"} -> 5
      [] dataType \in {"TIMEOID", "TIMESTAMPOID", "TIMESTAMPTZOID"} -> 6
      [] OTHER -> NumHashBlocks

\* the value block i assigns to result
HashBlock(i, num, numWorkers, value, hashfunc) ==
    CASE i \in {1, 4, 6} -> CRem(CRem(value.val, num), numWorkers)
      [] i = 2 -> CRem(CRem(Int16Of(value.val), num), numWorkers)
      [] i = 3 -> Uint32Mod(value.val, num) % numWorkers
      [] i = 5 -> CRem(CRem(CharOf(value.val), num), numWorkers)
      [] OTHER -> Uint32Mod(hashfunc[value.val], num) % numWorkers

\* The blocks of the switch do not end in a break: control runs from the
\* block entered through every later block, each assigning result again.
RECURSIVE HashBlocksFrom(_, _, _, _, _, _)
HashBlocksFrom(i, result, num, numWorkers, value, hashfunc) ==
    IF i > NumHashBlocks THEN result
    ELSE HashBlocksFrom(i + 1, HashBlock(i, num, numWorkers, value, hashfunc),
                        num, numWorkers, value, hashfunc)

\* the hash taken modulo the number of workers at once
ReDistributeHash_modulo(dataType, numWorkers, value, hashfunc) ==
    Uint32Mod(hashfunc[value.val], numWorkers)

ReDistributeHash(dataType, numWorkers, value, hashfunc) ==
    LET num == Pow2(numWorkers)
        result == HashBlocksFrom(HashCaseBlock(dataType), 0, num, numWorkers, value, hashfunc)
    IN  IF result < 0 THEN -result ELSE result

\* the free bytes counted without the byte that keeps head off tail
ReDistributeBufferFreeSize_whole(buf) ==
    IF buf.head >= buf.tail
    THEN (buf.length - buf.head) + buf.tail
    ELSE buf.tail - buf.head

ReDistributeBufferFreeSize(buf) ==
    IF buf.head >= buf.tail
    THEN (buf.length - buf.head) + (buf.tail - 1)
    ELSE buf.tail - buf.head - 1

ReDistributeBufferPutData(buf, dataLen, data) ==
    [buf EXCEPT !.buffer = Append(@, data),
                !.head = (buf.head + dataLen + SizeofInt) % buf.length]

\* the buffer after the read; the row read is Head(buf.buffer)
ReDistributeBufferGetData(buf) ==
    [buf EXCEPT !.buffer = Tail(@),
                !.tail = (buf.tail + DataLen + SizeofInt) % buf.length]

\* elog(ERROR) in worker w: the error path runs ReDistributeEreport
ReDistributeEreport(st, w) ==
    [st EXCEPT !.status[w] = ReDistribute_Error]

PeerError_never(st, i, parallelError) == FALSE

\* what a waiting worker tests when peer i is not what it waits for;
\* parallelError is what ParallelError() returns
PeerError(st, i, parallelError) ==
    st.status[i] = ReDistribute_Error \/ parallelError

\* the probing loop at the end of ReDistributeData: the first peer, from
\* indexSendWorker on, whose buffer towards w is filled beyond a quarter;
\* numWorkers when there is none
RECURSIVE ReDistributeProbe(_, _, _, _)
ReDistributeProbe(st, w, indexSendWorker, i) ==
    LET numWorkers == st.numLaunchedParallelWorkers
        bufIndex == indexSendWorker * numWorkers + w
        next == (indexSendWorker + 1) % numWorkers
    IN  IF i >= numWorkers THEN numWorkers
        ELSE IF ReDistributeBufferFreeSize(st.buf[bufIndex])
                    < ((ReDistributeBufferSize \div 4) * 3)
        THEN indexSendWorker
        ELSE ReDistributeProbe(st, w,
                 IF next = w THEN (next + 1) % numWorkers ELSE next, i + 1)

\* aggstate->dataType, the type of the redistribution column: the rows of
\* the children have int4 keys
RedistKeyType == "INT4OID"

\* ret is the function's result (TRUE: nothing to aggregate now); slot is the
\* row the slot holds when it returns
ReDistributeData(st, files, w, slot, hashfunc, dataType) ==
    LET numWorkers == st.numLaunchedParallelWorkers
        indexSendWorker ==
            IF slot.key.isnull THEN 0
            ELSE ReDistributeHash(RedistKeyType, numWorkers, slot.key, hashfunc)
        index == w * numWorkers + indexSendWorker
        inBuffer == ReDistributeBufferFreeSize(st.buf[index]) >= DataLen + SizeofInt
        mismatch ==
            IF inBuffer
            THEN st.buf[index].dataType \notin {"DT_None", dataType}
            ELSE st.ReDistributeData[index] \notin {"InvalidDsaPointer", dataType}
        sent ==
            IF inBuffer
            THEN [st EXCEPT !.buf[index] =
                     ReDistributeBufferPutData([@ EXCEPT !.dataType = dataType],
                                               DataLen, slot)]
            ELSE [st EXCEPT !.ReDistributeData[index] = dataType]
        written ==
            IF inBuffer THEN files ELSE [files EXCEPT ![index] = Append(@, slot)]
        from == ReDistributeProbe(sent, w, indexSendWorker, 1)
        bufIndex == from * numWorkers + w
    IN  IF indexSendWorker = w
        THEN [state |-> st, tmpfiles |-> files, ret |-> FALSE, slot |-> slot,
              error |-> ""]
        ELSE IF mismatch
        THEN [state |-> st, tmpfiles |-> files, ret |-> TRUE, slot |-> slot,
              error |-> "mismatch data type"]
        ELSE IF from < numWorkers
        THEN [state |-> [sent EXCEPT !.buf[bufIndex] = ReDistributeBufferGetData(@)],
              tmpfiles |-> written, ret |-> FALSE,
              slot |-> Head(sent.buf[bufIndex].buffer), error |-> ""]
        ELSE [state |-> sent, tmpfiles |-> written, ret |-> TRUE, slot |-> slot,
              error |-> ""]

\* a producer that never advertises that it is done
ReDistributeShareBufFile_silent(st, w) == st

ReDistributeShareBufFile(st, w) ==
    [st EXCEPT !.status[w] = ReDistribute_ProduceDone]

\* a consumer that never looks into the ring buffers
ReDistributeNextBuffer_none(st, w, index) == st.numLaunchedParallelWorkers

\* the first peer, from index on, whose buffer towards w holds data;
\* numWorkers when there is none
RECURSIVE ReDistributeNextBuffer(_, _, _)
ReDistributeNextBuffer(st, w, index) ==
    LET numWorkers == st.numLaunchedParallelWorkers
        bufIndex == index * numWorkers + w
    IN  IF index >= numWorkers THEN index
        ELSE IF index = w THEN ReDistributeNextBuffer(st, w, index + 1)
        ELSE IF st.buf[bufIndex].head # st.buf[bufIndex].tail THEN index
        ELSE ReDistributeNextBuffer(st, w, index + 1)

\* the bytes behind data when GetReDistributeData reads a record's data from
\* the merged file: for a datarow the msg of a RemoteDataRow of
\* sizeof(RemoteDataRowData) + dataLen bytes, dataLen behind the header; for the two tuple kinds
\* palloc0(nread), nread being what the read of the length returned
PayloadCapacity(dataType, nread, dataLen) ==
    IF dataType = "DT_DataRow"
    THEN dataLen
    ELSE nread

\* What reading one row's data from the merged file gives: BufFileRead
\* writes dataLen bytes, which is a write past the end of the allocation
\* when it is smaller.
ReadOutcomes(dataType) ==
    IF PayloadCapacity(dataType, SizeofInt, DataLen) >= DataLen
    THEN {"read"} ELSE {"read", "garbage", "crash"}

Garbage(row) == [row EXCEPT !.key = [val |-> -1, isnull |-> FALSE]]

Workers == 0..(rd_state.numLaunchedParallelWorkers - 1)

\* the workers' aggregation states are not part of this machine
AggUnchanged == UNCHANGED <<plan, pc, agg, pergroup, sortst, perhash, spill, out, calls>>

\* worker w attaches to the shared state before its ExecAgg runs
ReDistributeInitializeWorker(w) ==
    /\ worker[w].pc = "start"
    /\ rd_state' = [rd_state EXCEPT !.status[w] = ReDistribute_Init]
    /\ worker' = [worker EXCEPT ![w].pc = "fill"]
    /\ UNCHANGED tmpfiles
    /\ AggUnchanged

\* worker w raises an ERROR
Elog(w, st, files, msg) ==
    /\ rd_state' = ReDistributeEreport(st, w)
    /\ tmpfiles' = files
    /\ worker' = [worker EXCEPT ![w].pc = "error", ![w].error = msg]

\* the row in the slot goes through lookup_hash_entries and advance_aggregates
Aggregate(wk, slot) == [wk EXCEPT !.rows = Append(@, slot)]

\* one iteration of the for (;;) loop of agg_fill_hash_table in worker w;
\* childError: the child plan raises an ERROR inside fetch_input_tuple
FillHashTable(w) ==
    /\ worker[w].pc = "fill"
    /\ AggUnchanged
    /\ \E childError \in BOOLEAN :
        IF childError
        THEN Elog(w, rd_state, tmpfiles, "child plan")
        ELSE IF worker[w].child = <<>>
        THEN /\ rd_state' = ReDistributeShareBufFile(rd_state, w)
             /\ worker' = [worker EXCEPT ![w].pc = "getfile",
                                         ![w].merged = {w},
                                         ![w].i = 0]
             /\ UNCHANGED tmpfiles
        ELSE \E r \in {ReDistributeData(rd_state, tmpfiles, w, Head(worker[w].child),
                                        worker[w].hashfunc, worker[w].slotType)} :
                IF r.error # ""
                THEN Elog(w, r.state, r.tmpfiles, r.error)
                ELSE /\ rd_state' = r.state
                     /\ tmpfiles' = r.tmpfiles
                     /\ worker' = [worker EXCEPT ![w] =
                           LET fetched == [@ EXCEPT !.child = Tail(@)]
                           IN  IF r.ret THEN fetched ELSE Aggregate(fetched, r.slot)]

\* one iteration of the while loop of GetReDistributeBufFile in worker w, or
\* its return once every peer is merged
GetReDistributeBufFile(w) ==
    LET numWorkers == rd_state.numLaunchedParallelWorkers
        wk == worker[w]
        i == wk.i
        index == i * numWorkers + w
        stepped == [wk EXCEPT !.i = (i + 1) % numWorkers]
    IN  /\ wk.pc = "getfile"
        /\ AggUnchanged
        /\ \E parallelError \in BOOLEAN :
           IF Cardinality(wk.merged) >= numWorkers
           THEN /\ worker' = [worker EXCEPT ![w].pc = "consume", ![w].index = 0]
                /\ UNCHANGED <<rd_state, tmpfiles>>
           ELSE IF i = w
           THEN /\ worker' = [worker EXCEPT ![w] = stepped]
                /\ UNCHANGED <<rd_state, tmpfiles>>
           ELSE IF rd_state.status[i] >= ReDistribute_ProduceDone /\ i \notin wk.merged
           THEN IF rd_state.ReDistributeData[index] = "InvalidDsaPointer"
                THEN /\ worker' = [worker EXCEPT ![w] =
                                      [stepped EXCEPT !.merged = @ \cup {i}]]
                     /\ UNCHANGED <<rd_state, tmpfiles>>
                ELSE IF wk.dataType \notin {"DT_None", rd_state.ReDistributeData[index]}
                THEN Elog(w, rd_state, tmpfiles, "data type mismatch between workers")
                ELSE /\ worker' = [worker EXCEPT ![w] =
                            [stepped EXCEPT
                                !.merged = @ \cup {i},
                                !.dataType = rd_state.ReDistributeData[index],
                                \* CreateBufFile: the peer's files join the ones merged so far
                                !.file = (IF @ = "NULL" THEN <<>> ELSE @) \o tmpfiles[index]]]
                     /\ UNCHANGED <<rd_state, tmpfiles>>
           ELSE IF PeerError(rd_state, i, parallelError)
           THEN Elog(w, rd_state, tmpfiles, "5902: some other workers exit with errors")
           ELSE /\ worker' = [worker EXCEPT ![w] = stepped]
                /\ UNCHANGED <<rd_state, tmpfiles>>

\* one call of GetReDistributeData in worker w, up to the wait for the peers;
\* ioError: BufFileRead comes back short
GetReDistributeData(w) ==
    LET numWorkers == rd_state.numLaunchedParallelWorkers
        wk == worker[w]
        index == ReDistributeNextBuffer(rd_state, w, wk.index)
        bufIndex == index * numWorkers + w
        consumeDone ==
            /\ rd_state' = [rd_state EXCEPT !.status[w] = ReDistribute_ConsumeDone]
            /\ worker' = [worker EXCEPT ![w].pc = "closing", ![w].index = index,
                                        ![w].nDone = 0]
            /\ UNCHANGED tmpfiles
    IN  /\ wk.pc = "consume"
        /\ AggUnchanged
        /\ IF index < numWorkers
           THEN /\ rd_state' = [rd_state EXCEPT !.buf[bufIndex] = ReDistributeBufferGetData(@)]
                /\ worker' = [worker EXCEPT ![w] =
                        Aggregate([wk EXCEPT !.index = index],
                                  Head(rd_state.buf[bufIndex].buffer))]
                /\ UNCHANGED tmpfiles
           ELSE IF wk.file = "NULL" \/ wk.file = <<>>
           THEN consumeDone
           ELSE \E ioError \in BOOLEAN, ub \in ReadOutcomes(wk.dataType) :
                   IF ioError
                   THEN Elog(w, rd_state, tmpfiles, "could not read data in ReDistribute bufFile")
                   ELSE IF ub = "crash"
                   THEN /\ worker' = [worker EXCEPT ![w].pc = "crashed"]
                        /\ UNCHANGED <<rd_state, tmpfiles>>
                   ELSE /\ worker' = [worker EXCEPT ![w] =
                               Aggregate([wk EXCEPT !.index = index, !.file = Tail(@)],
                                         IF ub = "garbage" THEN Garbage(Head(wk.file))
                                         ELSE Head(wk.file))]
                        /\ UNCHANGED <<rd_state, tmpfiles>>

\* ReDistributeBufferCheck: data left in a buffer this worker writes to
ReDistributeBufferCheck(st, w) ==
    LET numWorkers == st.numLaunchedParallelWorkers
    IN  \E i \in (w * numWorkers)..(w * numWorkers + numWorkers - 1) :
            st.buf[i].head # st.buf[i].tail

\* a worker that closes its files without waiting for its peers
WaitConsumeDone_early(w) ==
    /\ worker[w].pc = "closing"
    /\ AggUnchanged
    /\ worker' = [worker EXCEPT ![w].pc = "done"]
    /\ tmpfiles' = [i \in DOMAIN tmpfiles |->
                      IF i \div rd_state.numLaunchedParallelWorkers = w THEN <<>>
                      ELSE tmpfiles[i]]
    /\ UNCHANGED rd_state

\* one iteration of the wait that ends GetReDistributeData in worker w; the
\* last one closes the files, returns false, and agg_fill_hash_table checks
\* the buffers and leaves its loop
WaitConsumeDone(w) ==
    LET numWorkers == rd_state.numLaunchedParallelWorkers
        wk == worker[w]
        nDone == wk.nDone
    IN  /\ wk.pc = "closing"
        /\ AggUnchanged
        /\ \E parallelError \in BOOLEAN :
           IF nDone >= numWorkers
           THEN IF ReDistributeBufferCheck(rd_state, w)
                THEN Elog(w, rd_state, tmpfiles, "data left in ReDistributeBuffer")
                ELSE /\ worker' = [worker EXCEPT ![w].pc = "done"]
                     /\ tmpfiles' = [i \in DOMAIN tmpfiles |->
                                       IF i \div numWorkers = w THEN <<>> ELSE tmpfiles[i]]
                     /\ UNCHANGED rd_state
           ELSE IF /\ rd_state.status[nDone] < ReDistribute_ConsumeDone
                   /\ rd_state.status[nDone] > ReDistribute_Error
           THEN UNCHANGED <<rd_state, tmpfiles, worker>>
           ELSE IF PeerError(rd_state, nDone, parallelError)
           THEN Elog(w, rd_state, tmpfiles, "5970: some other workers exit with errors")
           ELSE /\ worker' = [worker EXCEPT ![w].nDone = nDone + 1]
                /\ UNCHANGED <<rd_state, tmpfiles>>

NextRedist ==
    \/ \E w \in Workers : ReDistributeInitializeWorker(w)
    \/ \E w \in Workers : FillHashTable(w)
    \/ \E w \in Workers : GetReDistributeBufFile(w)
    \/ \E w \in Workers : GetReDistributeData(w)
    \/ \E w \in Workers : WaitConsumeDone(w)

\* what the children produce: at most MaxChildRows rows each
ChildInputs(w) ==
    UNION {{[n \in 1..len |-> [key |-> ks[n], id |-> <<w, n>>]] :
                ks \in [1..len -> {NullDatum, Dat(1), Dat(2)}]} : len \in 0..MaxChildRows}

\* the hash functions tried, as the int32 results for the keys 1 and 2
HashFuncs == {<<-1, 5>>}

\* the kinds of slot the child returns; a minimal tuple takes the branches of
\* a heap tuple
SlotTypes == {"DT_DataRow", "DT_HeapTup"}

InitRedist ==
    \E numWorkers \in 2..MaxWorkers :
      \E child \in [0..(numWorkers - 1) -> UNION {ChildInputs(w) : w \in 0..(MaxWorkers - 1)}],
         hashfunc \in HashFuncs, slotType \in SlotTypes :
        /\ \A w \in 0..(numWorkers - 1) : child[w] \in ChildInputs(w)
        /\ SeqSum([w \in 1..numWorkers |-> Len(child[w - 1])]) <= MaxRedistRows
        /\ rd_state = [numLaunchedParallelWorkers |-> numWorkers,
                    status |-> [w \in 0..(numWorkers - 1) |-> ReDistribute_None],
                    ReDistributeData |-> [i \in 0..(numWorkers * numWorkers - 1) |->
                                             "InvalidDsaPointer"],
                    buf |-> [i \in 0..(numWorkers * numWorkers - 1) |->
                               [length |-> ReDistributeBufferSize, head |-> 0, tail |-> 0,
                                dataType |-> "DT_None", buffer |-> <<>>]]]
        /\ tmpfiles = [i \in 0..(numWorkers * numWorkers - 1) |-> <<>>]
        /\ worker = [w \in 0..(numWorkers - 1) |->
                       [pc |-> "start", child |-> child[w], input |-> child[w],
                        slotType |-> slotType, hashfunc |-> hashfunc, rows |-> <<>>,
                        merged |-> {}, i |-> 0, file |-> "NULL", dataType |-> "DT_None",
                        index |-> 0, nDone |-> 0, error |-> ""]]
        /\ plan = "parallel" /\ pc = "parallel" /\ agg = <<>> /\ pergroup = <<>>
        /\ sortst = <<>> /\ perhash = <<>> /\ spill = <<>> /\ out = <<>> /\ calls = <<>>

SpecRedist == InitRedist /\ [][NextRedist]_vars

(***************************************************************************)
(* Claims about the redistribution.                                        *)
(***************************************************************************)
\* every row any child produces
ChildRows == UNION {{worker[w].input[n] : n \in 1..Len(worker[w].input)} : w \in Workers}

\* the worker a row belongs to
Destination(row) ==
    IF row.key.isnull THEN 0
    ELSE ReDistributeHash(RedistKeyType, rd_state.numLaunchedParallelWorkers,
                          row.key, worker[0].hashfunc)

AggregatedBy(w) == {worker[w].rows[n] : n \in 1..Len(worker[w].rows)}

AllDone == \A w \in Workers : worker[w].pc = "done"

\* C11: whatever a worker aggregates is a row some child produced whose
\* destination is that worker, no row is aggregated twice, and when every
\* worker has finished, every row has been aggregated by its destination,
\* whether it travelled through a ring buffer or through a file.
C11_RowsAggregatedAtDestination ==
    /\ \A w \in Workers :
          /\ \A row \in AggregatedBy(w) : row \in ChildRows /\ Destination(row) = w
          /\ Cardinality(AggregatedBy(w)) = Len(worker[w].rows)
    /\ AllDone => \A row \in ChildRows : row \in AggregatedBy(Destination(row))

\* the same for rows that are datarows, the only kind read back from a file
\* into a buffer of their size
C11_DataRowsAggregatedAtDestination ==
    worker[0].slotType = "DT_DataRow" => C11_RowsAggregatedAtDestination

\* worker w, waiting for its peers, is about to look at a peer in Error
ObservesError(w) ==
    LET wk == worker[w]
        numWorkers == rd_state.numLaunchedParallelWorkers
    IN  \/ /\ wk.pc = "getfile"
           /\ Cardinality(wk.merged) < numWorkers
           /\ wk.i # w
           /\ rd_state.status[wk.i] = ReDistribute_Error
        \/ /\ wk.pc = "closing"
           /\ wk.nDone < numWorkers
           /\ rd_state.status[wk.nDone] = ReDistribute_Error

\* C12: a worker's status changes only to the next of None, Init,
\* ProduceDone, ConsumeDone, or to Error; and the step of a worker that looks
\* at a peer in Error while it waits for ProduceDone or for ConsumeDone
\* raises an error.
C12_StatusForwardPeerErrorRaised ==
    [][\A w \in Workers :
          /\ rd_state'.status[w] # rd_state.status[w] =>
                \/ rd_state'.status[w] = ReDistribute_Error
                \/ /\ rd_state.status[w] >= ReDistribute_None
                   /\ rd_state'.status[w] = rd_state.status[w] + 1
          /\ ObservesError(w) /\ worker'[w] # worker[w] => worker'[w].pc = "error"]_vars

\* a worker has failed reading its file; of its peers one has failed waiting
\* for ProduceDone, the other waiting for ConsumeDone
C12_BothWaitsFailed ==
    \E a, b, c \in Workers :
        /\ worker[a].error = "5902: some other workers exit with errors"
        /\ worker[b].error = "5970: some other workers exit with errors"
        /\ worker[c].error = "could not read data in ReDistribute bufFile"

\* the rows worker w has fetched from its child so far
Fetched(w) ==
    {worker[w].input[n] : n \in 1..(Len(worker[w].input) - Len(worker[w].child))}

\* ((unsigned int) hashfunc(value)) mod N
HashModWorkers(row) ==
    Uint32Mod(worker[0].hashfunc[row.key.val], rd_state.numLaunchedParallelWorkers)

\* (((unsigned int) hashfunc(value)) mod 2^N) mod N
HashModPowerModWorkers(row) ==
    Uint32Mod(worker[0].hashfunc[row.key.val], Pow2(rd_state.numLaunchedParallelWorkers))
        % rd_state.numLaunchedParallelWorkers

ChildExhausted == sortst.child = Len(plan.input)

\* the batch files that hold records
WrittenFiles == {f \in 1..Len(spill.files) : spill.files[f].ntups_write > 0}

HashedRowReturned == plan.node.aggstrategy = "AGG_HASHED" /\ OutRows # <<>>

RollupSets(n) == {ColSet(n.grpColIdx, n.groupingSets[j]) : j \in 1..Len(n.groupingSets)}

\* row f is of a finer set than row c, and its group rolls up into c's
RollsUpInto(f, c) ==
    /\ c.cols \subseteq f.cols
    /\ c.cols # f.cols
    /\ \A col \in c.cols : f.key[col] = c.key[col]

C15_CoarserAfterFiner ==
    \A s \in 1..Len(SortNodes(plan)) :
        \A i, j \in 1..Len(OutRows) :
            (/\ OutRows[i].cols \in RollupSets(SortNodes(plan)[s])
             /\ OutRows[j].cols \in RollupSets(SortNodes(plan)[s])
             /\ RollsUpInto(OutRows[i], OutRows[j])) => i < j

\* a rollup over two columns has emitted two super-groups of two groups each
C15_TwoSuperGroups ==
    /\ EndOfStream
    /\ plan.node.groupingSets = <<2, 1, 0>>
    /\ Len(RowsOfSet(OutRows, {1})) = 2
    /\ Len(RowsOfSet(OutRows, {1, 2})) = 3

(***************************************************************************)
(* SpecInit: ExecInitAgg over target lists of two aggregate calls on the   *)
(* same column, which may or may not share their per-agg and per-trans     *)
(* structs, in a plain node (with the hybrid set-up on or off) and in a    *)
(* combining node above partial aggregations.                              *)
(***************************************************************************)
ShareCalls ==
    {Aggref(fn) : fn \in {"avg", "sum8", "avg_strict", "count"}}
    \cup {[Aggref("avg") EXCEPT !.volatile = TRUE],
          [Aggref("avg") EXCEPT !.aggfilter = "v>1"]}

ShareLists == {<<a, b>> : a \in ShareCalls, b \in ShareCalls}

InitPlans(aggs, input) ==
    {[SimplePlan(st[1], st[2], aggs, input) EXCEPT !.g_hybrid_hash_agg = g] :
        st \in {<<"AGG_PLAIN", <<>>>>, <<"AGG_SORTED", <<1>>>>, <<"AGG_HASHED", <<1>>>>},
        g \in BOOLEAN}
    \cup {SplitPlan(st[1], st[1], st[2], aggs, <<input, <<>>, <<>>>>) :
             st \in {<<"AGG_PLAIN", <<>>>>, <<"AGG_HASHED", <<1>>>>}}

InitInit ==
    \E aggs \in ShareLists, input \in Inputs(1..NumKeys, {1}, HashVals) :
        \E p \in InitPlans(aggs, input) : InitOf(p)

SpecInit == InitInit /\ [][Next]_vars

StrictCombineInternal(aggref) ==
    LET form == AggForm(aggref.aggfnoid)
    IN  form.aggtranstype = "internal" /\ form.aggcombinefn # ""
        /\ FnStrict(form.aggcombinefn)

InitFailed == pc = "error" /\ out = <<>> /\ calls.trans = 0 /\ calls.comb = 0

\* C16: when a call of the target list aggregates over an INTERNAL state with
\* a strict combine function, and the node combines partial states or the
\* hybrid hash aggregation's combine function is set up, ExecInitAgg ends in
\* an ERROR and no row is ever processed.
C16_StrictCombineInternalFails ==
    (/\ \E i \in 1..Len(plan.aggs) : StrictCombineInternal(plan.aggs[i])
     /\ plan.aggsplit.combine \/ plan.g_hybrid_hash_agg)
    => InitFailed

\* the same for a call that gets a per-trans struct of its own: there the
\* check is made
C16_UnsharedStrictCombineFails ==
    (/\ StrictCombineInternal(plan.aggs[1])
     /\ plan.aggsplit.combine \/ plan.g_hybrid_hash_agg)
    => InitFailed

(***************************************************************************)
(* Sharing of per-agg and per-trans structs.                               *)
(***************************************************************************)
\* the fields find_compatible_peragg compares, as far as calls of the model
\* differ in them
Matching(a, b) ==
    /\ a.aggfnoid = b.aggfnoid /\ a.arg = b.arg /\ a.aggorder = b.aggorder
    /\ a.aggdistinct = b.aggdistinct /\ a.aggfilter = b.aggfilter

TransnoOf(i) == agg.peragg[agg.aggs[i]].transno

\* the input rows for which the transition function of a per-trans struct is
\* due: the filter passes and a strict function sees no null argument
DueRows(pertrans) ==
    Cardinality({i \in 1..Len(plan.input) :
        /\ EvalFilter(pertrans.aggfilter, plan.input[i])
        /\ ~StrictSkip(pertrans, ArgsOf(plan.input[i], pertrans.arg))})

\* C17: after a successful ExecInitAgg two matching calls without volatile
\* functions have the same per-agg struct, every returned row shows the same
\* value for both, and over the whole input the transition functions are
\* called once per due row and per-trans struct (once for both calls); a call
\* with a volatile function has a per-agg and a per-trans struct of its own.
C17_MatchingCallsShareVolatileNever ==
    agg.error = "" =>
        /\ \A i, j \in 1..Len(plan.aggs) :
              (i < j /\ Matching(plan.aggs[i], plan.aggs[j])
               /\ ~plan.aggs[i].volatile /\ ~plan.aggs[j].volatile)
              => /\ agg.aggs[i] = agg.aggs[j]
                 /\ \A r \in 1..Len(OutRows) : OutRows[r].aggs[i] = OutRows[r].aggs[j]
        /\ \A i, j \in 1..Len(plan.aggs) :
              (i # j /\ plan.aggs[i].volatile)
              => (agg.aggs[i] # agg.aggs[j] /\ TransnoOf(i) # TransnoOf(j))
        /\ (EndOfStream /\ ~plan.aggsplit.combine)
           => calls.trans = SeqSum([t \in 1..agg.numtrans |-> DueRows(agg.pertrans[t])])

C17_SharedCallsOneTransitionPerRow ==
    /\ EndOfStream /\ ~plan.aggsplit.combine
    /\ plan.aggs[1] = plan.aggs[2] /\ ~plan.aggs[1].volatile
    /\ plan.aggs[1].aggfnoid = "avg"
    /\ Len(plan.input) = MaxRows
    /\ agg.numtrans = 1 /\ Len(agg.peragg) = 1
    /\ calls.trans = MaxRows

(***************************************************************************)
(* SpecAdvance: one per-group state of one aggregate in an AGG_PLAIN node, *)
(* advanced input by input: by advance_transition_function, or by          *)
(* advance_combine_function in a combining node, and initialized again by  *)
(* initialize_aggregate at any time.  sortst.child counts the inputs.      *)
(***************************************************************************)
MaxInputs == 4      \* inputs run into one per-group state, at most

AdvanceAggs == {"count", "sum", "max", "plsum", "capsum"}

InitAdvance ==
    \E fn \in AdvanceAggs, split \in {AGGSPLIT_SIMPLE, AGGSPLIT_FINAL_DESERIAL} :
        \E m \in {Call("ExecInitAgg",
                       <<[SimplePlan("AGG_PLAIN", <<>>, <<Aggref(fn)>>, <<>>)
                             EXCEPT !.aggsplit = split]>>)} :
            /\ plan = [SimplePlan("AGG_PLAIN", <<>>, <<Aggref(fn)>>, <<>>)
                          EXCEPT !.aggsplit = split]
            /\ pc = "advance"
            /\ agg = m.agg
            /\ pergroup = <<<<initialize_aggregate(m.agg.pertrans[1])>>>>
            /\ sortst = m.sortst
            /\ perhash = m.perhash
            /\ spill = m.spill
            /\ calls = m.calls
            /\ out = <<>>
            /\ rd_state = "NULL"
            /\ tmpfiles = <<>>
            /\ worker = <<>>

Advanced(r) ==
    /\ pergroup' = [pergroup EXCEPT ![1][1] = r.pg]
    /\ calls' = [calls EXCEPT !.trans = @ + (IF r.called THEN 1 ELSE 0)]
    /\ sortst' = [sortst EXCEPT !.child = @ + 1]
    /\ UNCHANGED <<plan, pc, agg, perhash, spill, out, rd_state, tmpfiles, worker>>

AdvanceTransition ==
    /\ pc = "advance" /\ ~plan.aggsplit.combine /\ sortst.child < MaxInputs
    /\ \E d \in Vals :
          Advanced(advance_transition_function(agg.pertrans[1], pergroup[1][1], <<d>>))

AdvanceCombine ==
    /\ pc = "advance" /\ plan.aggsplit.combine /\ sortst.child < MaxInputs
    /\ \E d \in Vals :
          Advanced(advance_combine_function(agg.pertrans[1], pergroup[1][1], d))

InitializeAggregate ==
    /\ pc = "advance" /\ sortst.child < MaxInputs
    /\ pergroup' = [pergroup EXCEPT ![1][1] = initialize_aggregate(agg.pertrans[1])]
    /\ UNCHANGED <<plan, pc, agg, sortst, perhash, spill, out, calls,
                   rd_state, tmpfiles, worker>>

NextAdvance == AdvanceTransition \/ AdvanceCombine \/ InitializeAggregate

SpecAdvance == InitAdvance /\ [][NextAdvance]_vars

\* a step that runs one more input into the group's state
InputStep == sortst'.child = sortst.child + 1

NoTransValueStaysFalse ==
    ~pergroup[1][1].noTransValue => ~pergroup'[1][1].noTransValue

NullStateStays ==
    (agg.pertrans[1].transfn_strict /\ ~pergroup[1][1].noTransValue
     /\ pergroup[1][1].transValueIsNull)
    => (pergroup'[1][1].transValueIsNull /\ calls'.trans = calls.trans)

\* C18: between two initializations of a per-group state noTransValue, once
\* false, stays false; and under a strict transition function a state that
\* is null after seeding stays null and the function is not called for it
\* again.
C18_SeededStaysNullPropagates ==
    [][InputStep => (NoTransValueStaysFalse /\ NullStateStays)]_vars

\* the same for advance_transition_function alone
C18_TransitionNullPropagates ==
    [][(InputStep /\ ~plan.aggsplit.combine)
       => (NoTransValueStaysFalse /\ NullStateStays)]_vars

\* and noTransValue under both functions
C18_NoTransValueStaysFalse ==
    [][InputStep => NoTransValueStaysFalse]_vars

(***************************************************************************)
(* Mixed plans: the hash tables are filled while phase 1 reads the child.  *)
(* The aggregates of SpecStrat tell which rows an entry has taken in:      *)
(* count_star their number, summ the sum of their m, a power of two that     *)
(* differs from row to row.                                                *)
(***************************************************************************)
HashColSets ==
    {ColSet(perhash[h].aggnode.grpColIdx, perhash[h].numCols) : h \in 1..Len(perhash)}

FromHashTable(row) == row.cols \in HashColSets

\* every hash table holds the first n rows of the child, each of them once
TablesHold(n) ==
    \A h \in 1..Len(perhash) :
        LET cols == perhash[h].aggnode.grpColIdx
            es == perhash[h].hashtable.entries
            keys == {KeyOf(plan.input[r], cols) : r \in 1..n}
            group(key) == SelectSeq(SubSeq(plan.input, 1, n),
                                    LAMBDA row : KeyOf(row, cols) = key)
        IN  /\ {es[i].firstTuple : i \in 1..Len(es)} = keys
            /\ Len(es) = Cardinality(keys)
            /\ \A i \in 1..Len(es) :
                  /\ es[i].additional[1].transValue = Len(group(es[i].firstTuple))
                  /\ es[i].additional[2].transValue = RowSum(group(es[i].firstTuple))

\* the groups the sorted phases of the plan have to emit
SortedGroups ==
    LET nodes == SortNodes(plan)
    IN  SeqSum([i \in 1..Len(nodes) |->
                   SeqSum([j \in 1..Len(nodes[i].groupingSets) |->
                      IF nodes[i].groupingSets[j] = 0 THEN 1
                      ELSE Cardinality(GroupKeys(plan.input,
                               ColSet(nodes[i].grpColIdx, nodes[i].groupingSets[j])))])])

\* C19: in a mixed plan the hash tables hold, between two calls of ExecAgg,
\* the rows phase 1 has read so far, each once in every table, and all rows
\* of the child in every later phase; a group of a hash table is returned
\* only after every group of every sorted phase.
C19_HashTablesFilledInPhaseOne ==
    (plan.node.aggstrategy = "AGG_MIXED" /\ pc = "idle") =>
        /\ \E n \in 0..Len(plan.input) :
              /\ TablesHold(n)
              /\ agg.current_phase = 1 => n \in {sortst.child, sortst.child - 1}
              /\ agg.current_phase # 1 => n = Len(plan.input)
        /\ \A i \in 1..Len(OutRows) :
              FromHashTable(OutRows[i]) =>
                  Len(SelectSeq(SubSeq(OutRows, 1, i - 1),
                                LAMBDA r : ~FromHashTable(r))) = SortedGroups
        /\ \A i, j \in 1..Len(OutRows) :
              (i < j /\ FromHashTable(OutRows[i])) => FromHashTable(OutRows[j])

C19_TwoTablesTwoSortedPhases ==
    /\ EndOfStream /\ plan.node.aggstrategy = "AGG_MIXED"
    /\ Len(perhash) = 2 /\ agg.numphases = 3
    /\ Len(plan.input) = MaxRows
    /\ \A h \in 1..2 : Len(perhash[h].hashtable.entries) = 2
    /\ \E i \in 1..Len(OutRows) : FromHashTable(OutRows[i])
    /\ \E i \in 1..Len(OutRows) : ~FromHashTable(OutRows[i])

(***************************************************************************)
(* SpecPhases: chains of two and three sorted phases, alone and behind the *)
(* hash table of a mixed plan.                                             *)
(***************************************************************************)
PhasePlans(aggs, input) ==
    { MkPlan(AggNode("AGG_SORTED", <<1>>, <<1, 0>>),
             <<AggNode("AGG_SORTED", <<2>>, <<1>>)>>, aggs, input),
      MkPlan(AggNode("AGG_SORTED", <<1>>, <<1>>),
             <<AggNode("AGG_SORTED", <<2>>, <<1>>),
               AggNode("AGG_SORTED", <<2, 1>>, <<2, 0>>)>>, aggs, input),
      MkPlan(AggNode("AGG_MIXED", <<1>>, <<1>>),
             <<AggNode("AGG_SORTED", <<2>>, <<1>>),
               AggNode("AGG_SORTED", <<1, 2>>, <<2>>),
               AggNode("AGG_SORTED", <<2, 1>>, <<1, 0>>)>>, aggs, input) }

InitPhases ==
    \E input \in Inputs(1..NumKeys, 1..NumKeys, {NullDatum}) :
        \E p \in PhasePlans(StratAggs, input) : InitOf(p)

SpecPhases == InitPhases /\ [][Next]_vars

LastSorted == agg.numphases - 1

SortedBy(tuples, cols) ==
    \A i, j \in 1..Len(tuples) :
        i < j => ~KeyLess(KeyOf(tuples[j], cols), KeyOf(tuples[i], cols))

\* the rows the current sorted phase has fetched, and whether it has
\* fetched all of its input
PhaseFetched ==
    IF sortst.sort_in.valid THEN SubSeq(sortst.sort_in.tuples, 1, sortst.sort_in.pos)
    ELSE SubSeq(plan.input, 1, sortst.child)

InputRead ==
    IF sortst.sort_in.valid THEN sortst.sort_in.pos = Len(sortst.sort_in.tuples)
    ELSE sortst.child = Len(plan.input)

\* between two calls of ExecAgg, in a sorted phase
SorterHandoff ==
    (pc = "idle" /\ agg.current_phase >= 1) =>
        \* the output sorter holds each fetched row once, unless the phase
        \* is the last
        /\ sortst.sort_out.valid = (agg.current_phase < LastSorted)
        /\ sortst.sort_out.valid
           => /\ sortst.sort_out.tuples = PhaseFetched
              /\ sortst.sort_out.cols = agg.phases[agg.current_phase + 1].sortnode
        \* a later phase reads the child's rows in its own order
        /\ sortst.sort_in.valid = (agg.current_phase >= 2)
        /\ sortst.sort_in.valid
           => /\ SeqToBag(sortst.sort_in.tuples) = SeqToBag(plan.input)
              /\ SortedBy(sortst.sort_in.tuples, agg.phases[agg.current_phase].sortnode)

\* a call of ExecAgg that leaves a sorted phase
PhaseSwitch ==
    (pc = "idle" /\ agg.current_phase >= 1 /\ agg'.current_phase # agg.current_phase)
    => /\ InputRead
       /\ (agg'.current_phase = agg.current_phase + 1)
          => sortst'.sort_in.tuples =
                tuplesort_performsort(sortst.sort_out.tuples, sortst.sort_out.cols)

\* C20: a sorted phase that is not the last puts every row it fetches into
\* the output sorter once; the next phase reads that sorter, sorted, so that
\* every sorted phase reads the rows of the child; and a phase is left only
\* when it has read all of its input.
C20_SorterHandoffBetweenPhases ==
    []SorterHandoff /\ [][PhaseSwitch]_vars

C20_ThirdPhaseReadsSecondSorter ==
    /\ pc = "idle" /\ agg.current_phase = 3 /\ agg.numphases = 4
    /\ Len(plan.input) = MaxRows
    /\ sortst.sort_in.pos = MaxRows
    /\ sortst.sort_in.tuples # plan.input

(***************************************************************************)
(* C21: on the sorted path, a call that starts a new group after the row   *)
(* of grouping set k was projected (projected_set = k) reinitialises the   *)
(* states of the sets 0..k only: afterwards these hold the rows of the new *)
(* group alone, and every set above k holds what it held before plus the   *)
(* rows of the new group.  A call that projects the next set of the same   *)
(* group reinitialises nothing.  summ adds the row marks m, so a state     *)
(* tells which rows went into it; count_star tells how many.               *)
(***************************************************************************)
CountState(pg, s) == pg[s][1].transValue

MarkState(pg, s) == IF pg[s][2].transValueIsNull THEN 0 ELSE pg[s][2].transValue

SortedRunning ==
    /\ pc = "idle" /\ pc' = "idle"
    /\ agg.phases[agg.current_phase].aggstrategy \in {"AGG_SORTED", "AGG_PLAIN"}
    /\ agg'.current_phase = agg.current_phase
    /\ agg.projected_set >= 0 /\ ~agg.input_done /\ ~agg.agg_done

NewGroupStarted == SortedRunning /\ agg'.projected_set = 0

NextSetProjected == SortedRunning /\ agg'.projected_set = agg.projected_set + 1

ResetUpToProjected ==
    NewGroupStarted =>
        \A s \in 1..agg.phases[agg.current_phase].numsets :
            IF s <= agg.projected_set + 1
            THEN /\ CountState(pergroup', s) = CountState(pergroup', 1)
                 /\ MarkState(pergroup', s) = MarkState(pergroup', 1)
            ELSE /\ CountState(pergroup', s) =
                        CountState(pergroup, s) + CountState(pergroup', 1)
                 /\ MarkState(pergroup', s) =
                        MarkState(pergroup, s) + MarkState(pergroup', 1)

NothingResetBetweenSets == NextSetProjected => pergroup' = pergroup

C21_ResetUpToProjectedSet ==
    [][ResetUpToProjected /\ NothingResetBetweenSets]_vars

\* a rollup whose coarser set has kept rows of an earlier group while the
\* finest set holds those of the group just projected
C21_CoarserSetKeptEarlierRows ==
    /\ pc = "idle" /\ plan.node.groupingSets = <<2, 1, 0>>
    /\ agg.projected_set = 0 /\ Len(OutRows) >= 2
    /\ CountState(pergroup, 1) >= 1
    /\ CountState(pergroup, 2) > CountState(pergroup, 1)
    /\ CountState(pergroup, 3) > CountState(pergroup, 2)

(***************************************************************************)
(* C22: on the sorted path the assertions on projected_set in              *)
(* agg_retrieve_direct and on newphase in initialize_phase never fail, and *)
(* whenever a group has been finalized, 0 <= projected_set < the number of *)
(* grouping sets of the current phase (at least 1); for every input, the   *)
(* empty one included, and across phase switches.                          *)
(***************************************************************************)
AssertTraps ==
    {"TRAP: projected_set < numGroupingSets", "TRAP: projected_set >= 0",
     "TRAP: newphase <= 1 || newphase == current_phase + 1", "TRAP: sort_in"}

GroupFinalized ==
    /\ pc = "idle" /\ Len(out) > 0 /\ out[Len(out)] # <<>>
    /\ agg.phases[agg.current_phase].aggstrategy \in {"AGG_SORTED", "AGG_PLAIN"}

C22_ProjectedSetInRange ==
    /\ agg.error \notin AssertTraps
    /\ agg.current_phase \in 0..agg.numphases - 1
    /\ GroupFinalized =>
          /\ 0 <= agg.projected_set
          /\ agg.projected_set < Max2(agg.phases[agg.current_phase].numsets, 1)

\* on empty input the second sorted phase has finalized its empty set, the
\* second of its two sets, after the first phase projected nothing
C22_EmptyInputSecondPhaseLastSet ==
    /\ GroupFinalized /\ plan.input = <<>>
    /\ agg.current_phase = 2 /\ agg.projected_set = 1
    /\ agg.phases[2].numsets = 2

(***************************************************************************)
(* C23: when a row's key is new and the table refuses it (the table holds  *)
(* as many entries as the sizing step allows), the dump appends every      *)
(* entry of the table exactly once to the batch file of its hash, in scan  *)
(* order, leaves no other entry in the table, and the insert retried next  *)
(* succeeds: the round ends without error and the table holds the pending  *)
(* key alone.  Stated for every capacity the sizing step computes, and for *)
(* the capacities of at least one entry.                                   *)
(***************************************************************************)
PendingKey == KeyOf(plan.input[sortst.child + 1], perhash[1].aggnode.grpColIdx)

RefusedInsert ==
    /\ pc = "idle" /\ InputLeft /\ sortst'.child = sortst.child + 1
    /\ perhash[1].hashtable.hybrid
    /\ FindEntry(perhash[1].hashtable.entries, PendingKey) = 0
    /\ Len(perhash[1].hashtable.entries) >= perhash[1].hashtable.nentries

\* the records of batch file b of the table's spill set (none: no such file)
BatchRecs(ph, sp, b) ==
    LET sid == ph[1].hashtable.spill_set
    IN  IF sid = 0 THEN <<>>
        ELSE IF sp.sets[sid].spill_file[b + 1] = 0 THEN <<>>
        ELSE sp.files[sp.sets[sid].spill_file[b + 1]].recs

EntryRecord(e) == [hash |-> e.hash, tuple |-> e.firstTuple, states |-> e.additional]

EntriesOfBatch(ht, b) ==
    LET es == SelectSeq(ht.entries, LAMBDA e : e.hash % ht.nbatches = b)
    IN  [i \in 1..Len(es) |-> EntryRecord(es[i])]

DumpedOnceAndRetried ==
    /\ pc' = "idle"
    /\ Len(perhash'[1].hashtable.entries) = 1
    /\ perhash'[1].hashtable.entries[1].firstTuple = PendingKey
    /\ perhash'[1].hashtable.spilled
    /\ \A b \in 0..perhash[1].hashtable.nbatches - 1 :
          BatchRecs(perhash', spill', b) =
              BatchRecs(perhash, spill, b) \o EntriesOfBatch(perhash[1].hashtable, b)
    /\ Len(spill'.files) <= Len(spill.files) + perhash[1].hashtable.nbatches

C23_DumpThenRetrySucceeds == [][RefusedInsert => DumpedOnceAndRetried]_vars

RefusedWithRoom == RefusedInsert /\ perhash[1].hashtable.nentries >= 1

C23_DumpThenRetrySucceedsWithRoom == [][RefusedWithRoom => DumpedOnceAndRetried]_vars

\* a second dump has appended to a batch file that the first dump wrote
C23_SecondDumpAppended ==
    /\ pc = "idle" /\ ~agg.table_filled /\ calls.dumps = 2
    /\ Len(perhash[1].hashtable.entries) = 1
    /\ \E b \in 0..perhash[1].hashtable.nbatches - 1 :
          Len(BatchRecs(perhash, spill, b)) = 2

(***************************************************************************)
(* C24: at every point of execution each record stored in batch file i of  *)
(* a spill set with n files has hash mod n = i, whether DumpHybridHashtable *)
(* or the re-spill path of LoadHybridHashtable wrote it; hence all records *)
(* of one key within a spill set lie in one batch file.                    *)
(***************************************************************************)
FilesOfSet(sid) ==
    {i \in 0..spill.sets[sid].num_files - 1 : spill.sets[sid].spill_file[i + 1] # 0}

RecsOfFile(sid, i) == spill.files[spill.sets[sid].spill_file[i + 1]].recs

RecordsInTheirBatch(sid) ==
    \A i \in FilesOfSet(sid) :
        \A j \in 1..Len(RecsOfFile(sid, i)) :
            RecsOfFile(sid, i)[j].hash % spill.sets[sid].num_files = i

KeyInOneBatch(sid) ==
    \A i1, i2 \in FilesOfSet(sid) :
        \A j1 \in 1..Len(RecsOfFile(sid, i1)), j2 \in 1..Len(RecsOfFile(sid, i2)) :
            RecsOfFile(sid, i1)[j1].tuple = RecsOfFile(sid, i2)[j2].tuple => i1 = i2

C24_RecordsInBatchOfHash ==
    \A sid \in 1..Len(spill.sets) : RecordsInTheirBatch(sid) /\ KeyInOneBatch(sid)

\* a child spill set of three files holds a record that the reload moved on
\* from a file of its parent, next to a parent file holding two records
C24_RespilledIntoThreeFiles ==
    \E sid \in 1..Len(spill.sets) :
        /\ spill.sets[sid].num_files = 3 /\ spill.sets[sid].level = 1
        /\ \E i \in FilesOfSet(sid) : i # 0 /\ Len(RecsOfFile(sid, i)) >= 1
        /\ \E j \in FilesOfSet(spill.sets[sid].parent_spill_set) :
              Len(RecsOfFile(spill.sets[sid].parent_spill_set, j)) >= 2

(***************************************************************************)
(* C25: a call that reloads a batch file of a spill set with n files at    *)
(* level L admits the first keys of the file up to the table's capacity;   *)
(* every record of another key is appended unchanged, in file order, to    *)
(* file hash mod (n + 1) of the file's child spill set, which has n + 1    *)
(* files and level L + 1, while every record of an admitted key, also one  *)
(* read after the overflow, is combined into the table.  No batch file has *)
(* two child sets, and a file that did not overflow has none.              *)
(***************************************************************************)
RECURSIVE AdmittedKeys(_, _, _)
AdmittedKeys(recs, acc, E) ==
    IF recs = <<>> THEN acc
    ELSE IF Head(recs).tuple \in acc \/ Cardinality(acc) >= E
    THEN AdmittedKeys(Tail(recs), acc, E)
    ELSE AdmittedKeys(Tail(recs), acc \cup {Head(recs).tuple}, E)

BatchLoaded == pc = "idle" /\ pc' = "idle" /\ calls'.loads = calls.loads + 1

\* the batch file the call has read to its end and closed
LoadedFile ==
    CHOOSE f \in 1..Len(spill'.files) :
        spill'.files[f].closed /\ (f > Len(spill.files) \/ ~spill.files[f].closed)

SetOfFile(sp, f) ==
    CHOOSE s \in 1..Len(sp.sets) :
        \E i \in 1..sp.sets[s].num_files : sp.sets[s].spill_file[i] = f

ChildRecs(sp, cid, i) ==
    IF sp.sets[cid].spill_file[i + 1] = 0 THEN <<>>
    ELSE sp.files[sp.sets[cid].spill_file[i + 1]].recs

RecCount(recs, key) ==
    SeqSum([j \in 1..Len(recs) |->
               IF recs[j].tuple = key THEN recs[j].states[1].transValue ELSE 0])

ReloadRespills(file, parent, sid, admitted) ==
    IF \A j \in 1..Len(file.recs) : file.recs[j].tuple \in admitted
    THEN ~file.spilled /\ file.child_spill_set = 0
    ELSE /\ file.spilled
         /\ file.child_spill_set \in 1..Len(spill'.sets)
         /\ file.child_spill_set > Len(spill.sets)
         /\ spill'.sets[file.child_spill_set].num_files = parent.num_files + 1
         /\ spill'.sets[file.child_spill_set].level = parent.level + 1
         /\ spill'.sets[file.child_spill_set].parent_spill_set = sid
         /\ \A i \in 0..parent.num_files :
               ChildRecs(spill', file.child_spill_set, i) =
                   SelectSeq(file.recs, LAMBDA r : r.tuple \notin admitted
                                                   /\ r.hash % (parent.num_files + 1) = i)

ReloadCombines(file, table, admitted) ==
    /\ {table.entries[j].firstTuple : j \in 1..Len(table.entries)} = admitted
    /\ Len(table.entries) = Cardinality(admitted)
    /\ \A j \in 1..Len(table.entries) :
          table.entries[j].additional[1].transValue =
              RecCount(file.recs, table.entries[j].firstTuple)

ReloadOverflow ==
    BatchLoaded =>
        /\ ReloadRespills(spill'.files[LoadedFile],
                          spill'.sets[SetOfFile(spill', LoadedFile)],
                          SetOfFile(spill', LoadedFile),
                          AdmittedKeys(spill'.files[LoadedFile].recs, {},
                                       perhash'[1].hashtable.nentries))
        /\ ReloadCombines(spill'.files[LoadedFile], perhash'[1].hashtable,
                          AdmittedKeys(spill'.files[LoadedFile].recs, {},
                                       perhash'[1].hashtable.nentries))

OneChildPerFile ==
    /\ \A f1, f2 \in 1..Len(spill.files) :
          (spill.files[f1].spilled /\ spill.files[f2].spilled
           /\ spill.files[f1].child_spill_set = spill.files[f2].child_spill_set) => f1 = f2
    /\ Cardinality({s \in 1..Len(spill.sets) : spill.sets[s].level > 0})
          = Cardinality({f \in 1..Len(spill.files) : spill.files[f].spilled})

C25_ReloadOverflowGoesToChild == []OneChildPerFile /\ [][ReloadOverflow]_vars

\* a batch file <<a, b, a>> reloaded into a table of one entry: b went to the
\* child set and the second record of a was combined after the overflow
C25_CombinedAfterOverflow ==
    \E f \in 1..Len(spill.files) :
        /\ spill.files[f].closed /\ spill.files[f].spilled
        /\ Len(spill.files[f].recs) = 3
        /\ spill.files[f].recs[1].tuple = spill.files[f].recs[3].tuple
        /\ spill.files[f].recs[1].tuple # spill.files[f].recs[2].tuple
        /\ perhash[1].hashtable.nentries = 1
        /\ Len(perhash[1].hashtable.entries) = 1
        /\ perhash[1].hashtable.entries[1].firstTuple = spill.files[f].recs[1].tuple
        /\ perhash[1].hashtable.entries[1].additional[1].transValue = 2

(***************************************************************************)
(* C26: the drain reads the batch files depth-first.  A call that reloads  *)
(* a batch file reads the first unread file of its spill set, and whenever *)
(* an earlier file has a child spill set, that child and everything below  *)
(* it has been read to the end, unless the file read now lies below it;    *)
(* a file is read once, to its end, and never touched after it is closed;  *)
(* and once the node has returned end-of-stream every batch file of every  *)
(* level is read.                                                          *)
(***************************************************************************)
RECURSIVE SubtreeFiles(_, _)
SubtreeFiles(sp, sid) ==
    LET fs == {sp.sets[sid].spill_file[i] : i \in 1..sp.sets[sid].num_files} \ {0}
    IN  fs \cup UNION {SubtreeFiles(sp, sp.files[f].child_spill_set) :
                          f \in {g \in fs : sp.files[g].spilled}}

IndexInSet(sp, f) ==
    CHOOSE i \in 1..sp.sets[SetOfFile(sp, f)].num_files :
        sp.sets[SetOfFile(sp, f)].spill_file[i] = f

ReadDepthFirst(sp, f) ==
    /\ \A i \in 1..IndexInSet(sp, f) - 1 :
          sp.sets[SetOfFile(sp, f)].spill_file[i] # 0 =>
              sp.files[sp.sets[SetOfFile(sp, f)].spill_file[i]].closed
    /\ \A g \in 1..Len(sp.files) :
          (g # f /\ sp.files[g].closed /\ sp.files[g].spilled) =>
              \/ f \in SubtreeFiles(sp, sp.files[g].child_spill_set)
              \/ \A h \in SubtreeFiles(sp, sp.files[g].child_spill_set) : sp.files[h].closed
    /\ \A g \in 1..Len(sp.files) :
          (g # f /\ ~sp.files[g].closed) => sp.files[g].ntups_read = 0

DrainStep ==
    /\ BatchLoaded => ReadDepthFirst(spill', LoadedFile)
    /\ \A f \in 1..Len(spill.files) :
          spill.files[f].closed => /\ f \in 1..Len(spill'.files)
                                   /\ spill'.files[f] = spill.files[f]

ReadToTheEnd ==
    \A f \in 1..Len(spill.files) :
        /\ spill.files[f].closed =>
              /\ spill.files[f].ntups_read = Len(spill.files[f].recs)
              /\ spill.files[f].ntups_write = Len(spill.files[f].recs)
        /\ (pc = "idle" /\ agg.agg_done) => spill.files[f].closed

C26_DrainDepthFirst == []ReadToTheEnd /\ [][DrainStep]_vars

\* both files of the first spill set are read, the first of them with a
\* child set that is read as well
C26_ChildReadBeforeNextFile ==
    \E s \in 1..Len(spill.sets) :
        /\ spill.sets[s].level = 0 /\ spill.sets[s].num_files = 2
        /\ spill.sets[s].spill_file[1] # 0 /\ spill.sets[s].spill_file[2] # 0
        /\ spill.files[spill.sets[s].spill_file[1]].spilled
        /\ \A h \in SubtreeFiles(spill, s) : spill.files[h].closed
        /\ pc = "idle" /\ ~agg.agg_done

(***************************************************************************)
(* C27: during reload, when a record finds the entry of its key and the    *)
(* combine function of a per-transition slot is invoked, the entry's state *)
(* in that slot is seeded: no strict combine function is called with a     *)
(* null existing state, also for a group whose first spilled state was     *)
(* null because all its inputs so far were null.  calls.combnull records   *)
(* such a call.                                                            *)
(***************************************************************************)
C27_StrictCombineSeeded == ~calls.combnull

(***************************************************************************)
(* SpecCollide: hashed grouping on columns 1 and 2 with hybrid spilling,   *)
(* over keys of which two, (1, 4) and (2, 1), have the same hash value.    *)
(***************************************************************************)
CollideK1 == {1, 2}
CollideK2 == {1, 4}

CollidePlan(input, E, B) ==
    WithHybrid(MkPlan(AggNode("AGG_HASHED", <<1, 2>>, <<>>), <<>>, HashAggs, input),
               TRUE, TRUE, E, B)

InitCollide ==
    \E input \in Inputs(CollideK1, CollideK2, {NullDatum}),
       E \in 1..MaxEntries, B \in 1..MaxBatches :
        InitOf(CollidePlan(input, E, B))

SpecCollide == InitCollide /\ [][NextSpill]_vars

(***************************************************************************)
(* C28: two keys whose hash values are equal but which are unequal are     *)
(* distinct groups throughout.  The second aggregate sums the column m,    *)
(* which holds a different power of two in every input row, so a state     *)
(* tells which rows went into it: the state of every table entry and of    *)
(* every batch-file record holds rows of its own key only, no table holds  *)
(* two entries of one key, and at end of stream every key of the input has *)
(* been returned once, with the count and the sum of its own rows.         *)
(***************************************************************************)
HasBit(mask, i) == (mask \div Pow2(i - 1)) % 2 = 1

\* the rows summed into states[2] all have the key
OwnRowsOnly(key, states) ==
    \A i \in 1..Len(plan.input) :
        (~states[2].transValueIsNull /\ HasBit(states[2].transValue, i))
            => plan.input[i].k = key

CollidingKeys(k1, k2) ==
    k1 # k2 /\ TupleHashTableHash(k1) = TupleHashTableHash(k2)

GroupsKeptApart ==
    /\ \A h \in 1..Len(perhash) :
          LET es == perhash[h].hashtable.entries
          IN  /\ \A i \in 1..Len(es) :
                    es[i].additional # <<>> => OwnRowsOnly(es[i].firstTuple, es[i].additional)
              /\ \A i, j \in 1..Len(es) :
                    es[i].firstTuple = es[j].firstTuple => i = j
    /\ \A f \in 1..Len(spill.files) : \A j \in 1..Len(spill.files[f].recs) :
          OwnRowsOnly(spill.files[f].recs[j].tuple, spill.files[f].recs[j].states)

EveryKeyReturnedOnce ==
    (EndOfStream /\ agg.error = "") =>
        /\ Len(OutRows) = Cardinality(GroupKeys(plan.input, {1, 2}))
        /\ \A key \in GroupKeys(plan.input, {1, 2}) :
              LET hit == SelectSeq(OutRows, LAMBDA r : r.key = key)
                  grp == GroupOf(plan.input, {1, 2}, key)
              IN  /\ Len(hit) = 1
                  /\ hit[1].aggs[1] = Dat(Len(grp))
                  /\ hit[1].aggs[2] = Dat(RowSum(grp))

C28_EqualHashUnequalKeysApart == GroupsKeptApart /\ EveryKeyReturnedOnce

\* both colliding keys were dumped into one batch file, the reload of that
\* file sent one of them on to the child set, and both have been returned
C28_CollidingKeysRespilledTogether ==
    /\ EndOfStream /\ agg.error = ""
    /\ \E i, j \in 1..Len(plan.input) : CollidingKeys(plan.input[i].k, plan.input[j].k)
    /\ \E f \in 1..Len(spill.files) :
          /\ spill.files[f].spilled
          /\ \E a, b \in 1..Len(spill.files[f].recs) :
                CollidingKeys(spill.files[f].recs[a].tuple, spill.files[f].recs[b].tuple)
    /\ Len(OutRows) >= 2

(***************************************************************************)
(* SpecFilter: aggregates with a FILTER next to one without, under a       *)
(* sorted rollup, one and two hashed grouping sets and a mixed plan.  The  *)
(* filtered sum takes the column m or the expression m / (k2 - 1), which   *)
(* cannot be computed for a row with k2 = 1; the sorted plan also has a    *)
(* filtered DISTINCT aggregate, which goes through a sorter.               *)
(***************************************************************************)
FilterNames == {"k2>1", "m>1"}

FilterAggs(arg, filter) ==
    <<Aggref("count_star"),
      [Aggref("summ") EXCEPT !.arg = arg, !.aggfilter = filter]>>

FilterPlans(arg, filter, input) ==
    { MkPlan(AggNode("AGG_SORTED", <<1>>, <<1, 0>>), <<>>,
             FilterAggs(arg, filter) \o <<DistinctAggref("count", filter)>>, input),
      SimplePlan("AGG_HASHED", <<1>>, FilterAggs(arg, filter), input),
      MkPlan(AggNode("AGG_HASHED", <<1>>, <<1>>),
             <<AggNode("AGG_HASHED", <<2>>, <<1>>)>>, FilterAggs(arg, filter), input),
      MkPlan(AggNode("AGG_MIXED", <<1>>, <<1>>),
             <<AggNode("AGG_SORTED", <<2>>, <<1, 0>>)>>, FilterAggs(arg, filter), input) }

InitFilter ==
    \E input \in Inputs(1..NumKeys, 1..NumKeys, {NullDatum, Dat(1)}),
       arg \in {"m", "mdiv"}, filter \in FilterNames :
        \E p \in FilterPlans(arg, filter, input) : InitOf(p)

SpecFilter == InitFilter /\ [][Next]_vars

(***************************************************************************)
(* C29: for each input row and each aggregate with a FILTER the filter is  *)
(* evaluated before the aggregate's arguments are evaluated or put into    *)
(* its sorter, and a row the filter rejects leaves that aggregate alone in *)
(* every grouping set while the other aggregates still process it.  So an  *)
(* argument expression fails only on a row that passes the filter of its   *)
(* aggregate, and every row returned holds, for each aggregate, the value  *)
(* over the rows of the group that pass that aggregate's filter.           *)
(***************************************************************************)
PassingRows(aggref, rows) ==
    SelectSeq(rows, LAMBDA row : EvalFilter(aggref.aggfilter, row))

ArgumentFailsOnPassingRowOnly ==
    agg.error = "division by zero" =>
        \E a \in 1..Len(plan.aggs), i \in 1..Len(plan.input) :
            /\ ArgThrows(plan.input[i], plan.aggs[a].arg)
            /\ EvalFilter(plan.aggs[a].aggfilter, plan.input[i])

FilteredValue(aggref, rows) ==
    LET pass == PassingRows(aggref, rows)
        args == [i \in 1..Len(pass) |-> ArgsOf(pass[i], aggref.arg)]
    IN  IF aggref.aggfnoid = "count_star" THEN Dat(Len(pass))
        ELSE IF aggref.aggfnoid = "count"
        THEN Dat(Cardinality({args[i][1] : i \in {j \in 1..Len(pass) : ~args[j][1].isnull}}))
        ELSE IF pass = <<>> THEN NullDatum
        ELSE Dat(SeqSum([i \in 1..Len(pass) |-> args[i][1].val]))

RejectedRowsLeftOut ==
    (EndOfStream /\ agg.error = "") =>
        \A r \in 1..Len(OutRows) : \A a \in 1..Len(plan.aggs) :
            OutRows[r].aggs[a] =
                FilteredValue(plan.aggs[a], GroupOf(plan.input, OutRows[r].cols, OutRows[r].key))

C29_FilterBeforeArguments == ArgumentFailsOnPassingRowOnly /\ RejectedRowsLeftOut

\* a row was rejected by the filter of the sum and counted by count_star
C29_RejectedRowStillCounted ==
    /\ EndOfStream /\ agg.error = ""
    /\ \E r \in 1..Len(OutRows) :
          /\ OutRows[r].aggs[1] = Dat(2)
          /\ OutRows[r].aggs[2] # NullDatum
          /\ Len(PassingRows(plan.aggs[2],
                             GroupOf(plan.input, OutRows[r].cols, OutRows[r].key))) = 1

(***************************************************************************)
(* SpecKeyHash: ReDistributeHash as a function of its arguments.  plan     *)
(* holds the call's arguments, out its result.                             *)
(***************************************************************************)
KeyTypes == IntegerLikeTypes \cup {"TEXTOID"}

KeyVals == (-3)..5

\* hash functions, as the int32 result for every key value
KeyHashFuncs == {[v \in KeyVals |-> (-2) - v], [v \in KeyVals |-> 5]}

InitKeyHash ==
    \E dataType \in KeyTypes, numWorkers \in 1..MaxWorkers, v \in KeyVals,
       hashfunc \in KeyHashFuncs :
        /\ plan = [dataType |-> dataType, numWorkers |-> numWorkers,
                   value |-> Dat(v), hashfunc |-> hashfunc]
        /\ pc = "hash" /\ out = <<>>
        /\ agg = <<>> /\ pergroup = <<>> /\ sortst = <<>> /\ perhash = <<>>
        /\ spill = <<>> /\ calls = <<>>
        /\ rd_state = "NULL" /\ tmpfiles = <<>> /\ worker = <<>>

HashKey ==
    /\ pc = "hash"
    /\ out' = <<ReDistributeHash(plan.dataType, plan.numWorkers, plan.value, plan.hashfunc)>>
    /\ pc' = "hashed"
    /\ UNCHANGED <<plan, agg, pergroup, sortst, perhash, spill, calls,
                   rd_state, tmpfiles, worker>>

NextKeyHash == HashKey

SpecKeyHash == InitKeyHash /\ [][NextKeyHash]_vars

(***************************************************************************)
(* C30: for a key of one of the integer-like types ReDistributeHash        *)
(* returns the absolute value of (value mod 2^N) mod N, computed from the  *)
(* key value itself, N being the number of workers; only for another type  *)
(* is the result computed from the hash function's value.                  *)
(***************************************************************************)
AbsInt(x) == IF x < 0 THEN -x ELSE x

C30_IntegerKeyHashedByValue ==
    pc = "hashed" =>
        out[1] = IF plan.dataType \in IntegerLikeTypes
                 THEN AbsInt(CRem(CRem(plan.value.val, Pow2(plan.numWorkers)),
                                  plan.numWorkers))
                 ELSE Uint32Mod(plan.hashfunc[plan.value.val], Pow2(plan.numWorkers))
                          % plan.numWorkers

\* what the function returns instead: the hash function's value decides for
\* every type
C30_EveryKeyHashedByFunction ==
    pc = "hashed" =>
        out[1] = Uint32Mod(plan.hashfunc[plan.value.val], Pow2(plan.numWorkers))
                     % plan.numWorkers

(***************************************************************************)
(* C31: once the reload has read and closed a batch file, no record is     *)
(* written to that file again, and no hash table is dumped after a reload  *)
(* of it, under every strategy.  calls.redump records a dump made after a  *)
(* reload (the plans of SpecHash have one hash table); a write to a closed *)
(* file either ends the backend or is lost, counted in ntups_write.        *)
(***************************************************************************)
NoDumpAfterReload ==
    /\ ~calls.redump
    /\ ~calls.closedwrite
    /\ agg.error # "write to a closed batch file"

ClosedFilesKept ==
    \A f \in 1..Len(spill.files) :
        spill.files[f].closed =>
            /\ f <= Len(spill'.files)
            /\ spill'.files[f].closed
            /\ spill'.files[f].recs = spill.files[f].recs
            /\ spill'.files[f].ntups_write = spill.files[f].ntups_write

C31_ClosedFilesNeverWritten == []NoDumpAfterReload /\ [][ClosedFilesKept]_vars

\* a plain hashed aggregation has drained a child spill set without a dump
\* after its first reload
C31_HashedDrainedWithoutRedump ==
    /\ EndOfStream /\ agg.error = ""
    /\ plan.node.aggstrategy = "AGG_HASHED"
    /\ Len(spill.sets) >= 2
    /\ calls.loads >= 2
    /\ ~calls.redump

(***************************************************************************)
(* SpecResolve: hashed grouping on column 1 by a plan marked hybrid, one   *)
(* entry in memory, over target lists of two calls some of which have no   *)
(* combine function or, over an INTERNAL state, no serialization           *)
(* functions; with both settings of g_hybrid_hash_agg.                     *)
(***************************************************************************)
ResolveCalls == {"sum", "sum_nocomb", "avg", "string_agg"}

ResolveLists == {<<Aggref(a), Aggref(b)>> : a \in ResolveCalls, b \in ResolveCalls}

InitResolve ==
    \E aggs \in ResolveLists, input \in Inputs(1..NumKeys, {1}, HashVals),
       g \in BOOLEAN, B \in 1..MaxBatches :
        InitOf(WithHybrid(SimplePlan("AGG_HASHED", <<1>>, aggs, input), g, TRUE, 1, B))

SpecResolve == InitResolve /\ [][Next]_vars

(***************************************************************************)
(* C32: whenever a hash table is dumped or the reload invokes a combine    *)
(* function, every per-trans struct has the combine function, and over an  *)
(* INTERNAL state the serialize and deserialize functions, that            *)
(* ExecInitAgg resolved; and in a node one of whose aggregates lacks one   *)
(* of them no hash table is hybrid, from before the first row on.          *)
(***************************************************************************)
ResolvedAtInit(pertrans) ==
    /\ pertrans.combfn # ""
    /\ pertrans.aggtranstype = "internal" =>
          (pertrans.serial_func_id # "" /\ pertrans.deserial_func_id # "")

LacksHybridFunction(aggref) ==
    LET form == AggForm(aggref.aggfnoid)
    IN  \/ form.aggcombinefn = ""
        \/ /\ form.aggtranstype = "internal"
           /\ (form.aggserialfn = "" \/ form.aggdeserialfn = "")

DumpedOrMerged ==
    \/ calls.dumps > 0
    \/ calls.comb > 0
    \/ agg.error = "combine function called through a zeroed FmgrInfo"

SpillsWithResolvedFunctions ==
    DumpedOrMerged => \A t \in 1..agg.numtrans : ResolvedAtInit(agg.pertrans[t])

HybridOffWhenLacking ==
    (\E i \in 1..Len(plan.aggs) : LacksHybridFunction(plan.aggs[i]))
        => \A h \in 1..Len(perhash) : ~perhash[h].hashtable.hybrid

C32_HybridFunctionsResolved == SpillsWithResolvedFunctions /\ HybridOffWhenLacking

\* the second half of C32 for nodes initialized with g_hybrid_hash_agg on
C32_HybridOffWhenLackingFlagOn == plan.g_hybrid_hash_agg => HybridOffWhenLacking

\* the first half of C32 for such nodes
C32_SpillsResolvedFlagOn == plan.g_hybrid_hash_agg => SpillsWithResolvedFunctions

\* the whole of C32 when the call that lacks a function comes first in the
\* target list (it then gets the per-trans struct built for it)
C32_FirstCallLacking ==
    (plan.g_hybrid_hash_agg /\ LacksHybridFunction(plan.aggs[1])) =>
        C32_HybridFunctionsResolved

(***************************************************************************)
(* ExecReScanAgg.  chg: the subplan has parameter changes (chgParam is not *)
(* NULL) or the node's own changes overlap aggParams.  A hashed node whose *)
(* table is filled and whose parameters did not change only resets the     *)
(* iterator of perhash[0]; every other rescan ends the tuplesorts, builds  *)
(* empty hash tables, zeroes the per-group states, returns to phase 1 and  *)
(* has the child start over.                                               *)
(***************************************************************************)
MaxRescans == 1

ExecReScanAgg(p, m, chg) ==
    LET hashed == m.agg.aggstrategy = "AGG_HASHED"
        m0 == [m EXCEPT !.agg.agg_done = FALSE]
        m1 == [m0 EXCEPT
                 !.sortst.sortstates = [s \in DOMAIN @ |->
                                           [t \in DOMAIN @[s] |-> EmptySortState]],
                 !.agg.grp_firstTuple = <<>>]
        m2 == IF m.agg.aggstrategy \in {"AGG_HASHED", "AGG_MIXED"}
              THEN [m1 EXCEPT !.perhash = build_hash_table(p),
                              !.agg.table_filled = FALSE]
              ELSE m1
        m3 == IF ~hashed
              THEN LET z == [m2 EXCEPT
                               !.pergroup = [s \in DOMAIN @ |->
                                   [t \in DOMAIN @[s] |->
                                       [transValue |-> 0, transValueIsNull |-> FALSE,
                                        noTransValue |-> FALSE]]]]
                       i == initialize_phase(z, 1)
                   IN  [i EXCEPT !.agg.input_done = FALSE,
                                 !.agg.projected_set = -1]
              ELSE m2
    IN  IF hashed /\ ~m.agg.table_filled THEN m0
        ELSE IF hashed /\ ~chg
        THEN [m0 EXCEPT !.perhash[1].hashiter = [cur |-> 1],
                        !.agg.current_set = 0]
        ELSE [m3 EXCEPT !.sortst.child = 0]

\* the executor rescans the node between two calls of ExecAgg
ReScan ==
    /\ pc = "idle"
    /\ Len(calls.rescans) < MaxRescans
    /\ \E chg \in BOOLEAN :
          \E r \in {ExecReScanAgg(plan, Machine, chg)} :
              /\ agg' = r.agg
              /\ pergroup' = r.pergroup
              /\ sortst' = r.sortst
              /\ perhash' = r.perhash
              /\ spill' = r.spill
              /\ calls' = [r.calls EXCEPT !.rescans =
                               Append(@, [at |-> Len(out), chg |-> chg])]
              /\ pc' = IF r.agg.error # "" THEN "error" ELSE "idle"
              /\ out' = out
    /\ UNCHANGED <<plan, rd_state, tmpfiles, worker>>

NextRescan == ExecAgg \/ ReScan

(***************************************************************************)
(* SpecRescan: hashed grouping on column 1, with and without the hybrid    *)
(* table, rescanned at most MaxRescans times at any point between two      *)
(* calls of ExecAgg.                                                       *)
(***************************************************************************)
InitRescan ==
    \E input \in Inputs(1..NumKeys, {1}, HashVals), hs \in HybridSettings :
        InitOf(WithHybrid(HashPlan("hashed", input), hs[1], hs[2], hs[3], hs[4]))

SpecRescan == InitRescan /\ [][NextRescan]_vars

\* what ExecAgg returned in calls from + 1 to to
Returned(from, to) == SubSeq(out, from + 1, to)

NullsIn(s) == Len(SelectSeq(s, LAMBDA r : r = <<>>))

\* s is one full scan: rows, then end-of-stream once
FullScan(s) == s # <<>> /\ s[Len(s)] = <<>> /\ NullsIn(s) = 1

RowsOfScan(s) == LET rs == SelectSeq(s, LAMBDA r : r # <<>>)
                 IN  [i \in 1..Len(rs) |-> rs[i][1]]

BagOfSeq(s) == [x \in {s[i] : i \in 1..Len(s)} |-> Cardinality({i \in 1..Len(s) : s[i] = x})]

FirstScan == Returned(0, calls.rescans[1].at)

SecondScan == Returned(calls.rescans[1].at, Len(out))

\* a rescan without parameter changes after end-of-stream, and a full scan after it
RescannedAfterEndOfStream ==
    /\ pc = "idle"
    /\ Len(calls.rescans) = 1
    /\ ~calls.rescans[1].chg
    /\ FullScan(FirstScan)
    /\ FullScan(SecondScan)

SpilledInFirstScan == spill.files # <<>>

(***************************************************************************)
(* C33: after a HASHED aggregation has returned end-of-stream, a rescan    *)
(* with no parameter changes followed by a full scan yields the same       *)
(* multiset of rows as the first scan, also when the hash table spilled to *)
(* batch files during the first scan.                                      *)
(***************************************************************************)
C33_RescanRepeatsRows ==
    RescannedAfterEndOfStream =>
        BagOfSeq(RowsOfScan(SecondScan)) = BagOfSeq(RowsOfScan(FirstScan))

\* the same statement for the scans that never left memory
C33_RescanRepeatsRowsInMemory ==
    (RescannedAfterEndOfStream /\ ~SpilledInFirstScan) =>
        BagOfSeq(RowsOfScan(SecondScan)) = BagOfSeq(RowsOfScan(FirstScan))

C33_RescannedInMemory ==
    /\ RescannedAfterEndOfStream
    /\ ~SpilledInFirstScan
    /\ Len(RowsOfScan(FirstScan)) >= 2

C33_RescannedAfterSpill ==
    /\ RescannedAfterEndOfStream
    /\ SpilledInFirstScan

\* the violation does not need the GUC to be off
C33_RescanRepeatsRowsFlagOn ==
    plan.g_hybrid_hash_agg => C33_RescanRepeatsRows

(***************************************************************************)
(* FairCollide: SpecCollide with a caller that keeps going: the fill loop  *)
(* of agg_fill_hash_table runs on while the child has rows, and the        *)
(* executor calls ExecAgg again until it has returned NULL.                *)
(***************************************************************************)
\* the states in which a step of FillRow, of Drain, changes the state
FillRowEnabled == pc = "idle" /\ InputLeft

DrainEnabled ==
    /\ ~InputLeft
    /\ pc = "idle"
    /\ NullsReturned <= MaxEosCalls
    /\ Len(out) < MaxCalls

\* WF_vars(FillRow) /\ WF_vars(Drain), with ENABLED written out as the guards
FairCollide ==
    /\ SpecCollide
    /\ ([]<>~FillRowEnabled \/ []<><<FillRow>>_vars)
    /\ ([]<>~DrainEnabled \/ []<><<Drain>>_vars)

DistinctKeys == {plan.input[i].k : i \in 1..Len(plan.input)}

\* every level of the spill recursion keeps at least one key in memory
SpillDepthBounded ==
    \A s \in 1..Len(spill.sets) : spill.sets[s].level < Cardinality(DistinctKeys)

\* more keys of one hash value than the table has entries
MoreCollidingKeysThanEntries ==
    \E k \in DistinctKeys :
        Cardinality({j \in DistinctKeys : TupleHashTableHash(j) = TupleHashTableHash(k)})
            > perhash[1].hashtable.nentries

(***************************************************************************)
(* C34: for every finite input, every capacity E >= 1 and every batch      *)
(* count B >= 1 the drain terminates: ExecAgg eventually returns           *)
(* end-of-stream, and the levels of the spill sets stay below the number   *)
(* of distinct keys, also when more than E distinct keys have one hash     *)
(* value.                                                                  *)
(***************************************************************************)
C34_DrainTerminates == []SpillDepthBounded /\ <>EndOfStream

C34_CollidingKeysDrained ==
    /\ EndOfStream
    /\ MoreCollidingKeysThanEntries
    /\ \E s \in 1..Len(spill.sets) : spill.sets[s].level >= 1
    /\ Len(OutRows) = Cardinality(DistinctKeys)

(***************************************************************************)
(* The ring buffer byte by byte.  ReDistributeBufferPutData and            *)
(* ReDistributeBufferGetData above keep the records of a buffer as a       *)
(* queue; here buf.buffer is the array of buf.length bytes the code        *)
(* copies into and out of, the length prefix is the four bytes of the int  *)
(* dataLen in the byte order of the machine (least significant first), and *)
(* both copies are split in two where they reach the end of the array.     *)
(***************************************************************************)
RingLength == 11        \* bytes of the ring buffer of SpecRing
MaxPayload == 3         \* bytes of one record's data: 1..MaxPayload
MaxPuts == 4            \* records the producer sends, at most

IntBytes(x) ==
    <<x % 256, (x \div 256) % 256, (x \div 65536) % 256, (x \div 16777216) % 256>>

BytesInt(b) == b[1] + 256 * b[2] + 65536 * b[3] + 16777216 * b[4]

\* memcpy(buffer + at, bytes, Len(bytes))
MemcpyIn(buffer, at, bytes) ==
    [i \in DOMAIN buffer |->
        IF at <= i /\ i < at + Len(bytes) THEN bytes[i - at + 1] ELSE buffer[i]]

\* memcpy(msg, buffer + at, n)
MemcpyOut(buffer, at, n) == [i \in 1..n |-> buffer[at + i - 1]]

\* the bytes of the buffer after the copies of ReDistributeBufferPutData
PutDataCopy(buf, dataLen, data) ==
    LET prefix == IntBytes(dataLen)
        len1 == buf.length - buf.head
        b1 == IF buf.length - buf.head >= SizeofInt
              THEN MemcpyIn(buf.buffer, buf.head, prefix)
              ELSE MemcpyIn(MemcpyIn(buf.buffer, buf.head, SubSeq(prefix, 1, len1)),
                            0, SubSeq(prefix, len1 + 1, SizeofInt))
        posi == (buf.head + SizeofInt) % buf.length
        len2 == buf.length - posi
    IN  IF buf.length - posi >= dataLen
        THEN MemcpyIn(b1, posi, data)
        ELSE MemcpyIn(MemcpyIn(b1, posi, SubSeq(data, 1, len2)),
                      0, SubSeq(data, len2 + 1, dataLen))

\* buf->head at the end of ReDistributeBufferPutData
PutDataHead(buf, dataLen) == (buf.head + dataLen + SizeofInt) % buf.length

\* *dataLen as ReDistributeBufferGetData reads it at buf->tail
GetDataLen(buf) ==
    LET offset == buf.tail
        len == buf.length - offset
    IN  BytesInt(IF buf.length - offset >= SizeofInt
                 THEN MemcpyOut(buf.buffer, offset, SizeofInt)
                 ELSE MemcpyOut(buf.buffer, offset, len)
                          \o MemcpyOut(buf.buffer, 0, SizeofInt - len))

\* a second copy that goes on from where the first ended instead of from the
\* start of the array
GetDataCopy_unwrapped(buf) ==
    LET dataLen == GetDataLen(buf)
        offset == (buf.tail + SizeofInt) % buf.length
        len == buf.length - offset
    IN  IF buf.length - offset >= dataLen
        THEN MemcpyOut(buf.buffer, offset, dataLen)
        ELSE MemcpyOut(buf.buffer, offset, len)
                 \o [i \in 1..(dataLen - len) |-> buf.buffer[(len + i - 1) % buf.length]]

\* msg as ReDistributeBufferGetData fills it
GetDataCopy(buf) ==
    LET dataLen == GetDataLen(buf)
        offset == (buf.tail + SizeofInt) % buf.length
        len == buf.length - offset
    IN  IF buf.length - offset >= dataLen
        THEN MemcpyOut(buf.buffer, offset, dataLen)
        ELSE MemcpyOut(buf.buffer, offset, len)
                 \o MemcpyOut(buf.buffer, 0, dataLen - len)

\* buf->tail at the end of ReDistributeBufferGetData
GetDataTail(buf) == (buf.tail + GetDataLen(buf) + SizeofInt) % buf.length

(***************************************************************************)
(* SpecRing: one ring buffer between its producer (ReDistributeData in one *)
(* worker) and its consumer (the probe of ReDistributeData and             *)
(* GetReDistributeData in another).  Each side takes two steps, the copy   *)
(* and the store of its index, and the two sides interleave; the stores    *)
(* are seen in program order.  rd_state.buf[0] is the buffer; worker.put   *)
(* the records whose head has been stored, worker.got the records whose    *)
(* tail has been stored, worker.file the records sent to the spool file.   *)
(***************************************************************************)
\* the n-th record: dataLen bytes that tell the record and the position
Record(n, dataLen) == [dataLen |-> dataLen, data |-> [i \in 1..dataLen |-> 16 * n + i]]

InitRing ==
    /\ rd_state = [buf |-> [b \in {0} |->
                      [length |-> RingLength, head |-> 0, tail |-> 0,
                       dataType |-> "DT_None",
                       buffer |-> [i \in 0..(RingLength - 1) |-> 0]]]]
    /\ worker = [put |-> <<>>, got |-> <<>>, file |-> <<>>,
                 putting |-> <<>>, getting |-> <<>>]
    /\ plan = "ring" /\ pc = "ring" /\ out = <<>>
    /\ agg = <<>> /\ pergroup = <<>> /\ sortst = <<>> /\ perhash = <<>>
    /\ spill = <<>> /\ calls = <<>> /\ tmpfiles = <<>>

RingUnchanged ==
    UNCHANGED <<plan, pc, agg, pergroup, sortst, perhash, spill, out, calls, tmpfiles>>

Sent == Len(worker.put) + Len(worker.file) + Len(worker.putting)

\* ReDistributeData: the row goes into the buffer if it has room for the
\* data and its length, into the spool file otherwise
ProducerCopy ==
    /\ worker.putting = <<>>
    /\ Sent < MaxPuts
    /\ RingUnchanged
    /\ \E dataLen \in 1..MaxPayload :
          LET buf == rd_state.buf[0]
              rec == Record(Sent + 1, dataLen)
          IN  IF ReDistributeBufferFreeSize(buf) >= dataLen + SizeofInt
              THEN /\ rd_state' = [rd_state EXCEPT
                                     !.buf[0].buffer = PutDataCopy(buf, dataLen, rec.data)]
                   /\ worker' = [worker EXCEPT !.putting = <<rec>>]
              ELSE /\ worker' = [worker EXCEPT !.file = Append(@, rec)]
                   /\ UNCHANGED rd_state

\* the last statement of ReDistributeBufferPutData
ProducerStoreHead ==
    /\ worker.putting # <<>>
    /\ RingUnchanged
    /\ rd_state' = [rd_state EXCEPT
                      !.buf[0].head = PutDataHead(rd_state.buf[0], worker.putting[1].dataLen)]
    /\ worker' = [worker EXCEPT !.put = Append(@, worker.putting[1]), !.putting = <<>>]

\* GetReDistributeData finds head # tail and reads the record at tail
ConsumerCopy ==
    /\ worker.getting = <<>>
    /\ rd_state.buf[0].head # rd_state.buf[0].tail
    /\ RingUnchanged
    /\ worker' = [worker EXCEPT !.getting =
                     <<[dataLen |-> GetDataLen(rd_state.buf[0]),
                        data |-> GetDataCopy(rd_state.buf[0])]>>]
    /\ UNCHANGED rd_state

\* the last statement of ReDistributeBufferGetData
ConsumerStoreTail ==
    /\ worker.getting # <<>>
    /\ RingUnchanged
    /\ rd_state' = [rd_state EXCEPT !.buf[0].tail = GetDataTail(rd_state.buf[0])]
    /\ worker' = [worker EXCEPT !.got = Append(@, worker.getting[1]), !.getting = <<>>]

NextRing == ProducerCopy \/ ProducerStoreHead \/ ConsumerCopy \/ ConsumerStoreTail

SpecRing == InitRing /\ [][NextRing]_vars

\* bytes between tail and head
Occupied(buf) == (buf.head - buf.tail + buf.length) % buf.length

UnreadPositions(buf) == {(buf.tail + k) % buf.length : k \in 0..(Occupied(buf) - 1)}

UnreadRecords == Len(worker.put) - Len(worker.got)

OccupiedBelowLength == Occupied(rd_state.buf[0]) <= rd_state.buf[0].length - 1

EmptyIffNothingUnread ==
    (rd_state.buf[0].head = rd_state.buf[0].tail) <=> (UnreadRecords = 0)

UnreadBytesKept ==
    \A i \in UnreadPositions(rd_state.buf[0]) :
        rd_state'.buf[0].buffer[i] = rd_state.buf[0].buffer[i]

(***************************************************************************)
(* C35: the bytes between tail and head are never more than length - 1,    *)
(* head = tail exactly when every record put has been taken out, and no    *)
(* step changes a byte between tail and head: the put, made only with      *)
(* room for the data and its length, never overwrites unread bytes.        *)
(***************************************************************************)
C35_RingNeverOverfull ==
    [](OccupiedBelowLength /\ EmptyIffNothingUnread) /\ [][UnreadBytesKept]_vars

\* a put that wrapped around while a record was unread, and a put refused
C35_WrappedPutNextToUnread ==
    /\ Len(worker.put) >= 2
    /\ UnreadRecords >= 1
    /\ rd_state.buf[0].head < rd_state.buf[0].tail
    /\ worker.file # <<>>

(***************************************************************************)
(* C36: the records ReDistributeBufferGetData returns are the records put, *)
(* in the order of the puts and byte for byte, also when the length prefix *)
(* or the data of a record wraps around the end of the buffer.             *)
(***************************************************************************)
IsPrefix(s, t) == Len(s) <= Len(t) /\ s = SubSeq(t, 1, Len(s))

C36_GetReturnsPutsInOrder ==
    /\ IsPrefix(worker.got, worker.put)
    /\ worker.getting # <<>> => worker.getting[1] = worker.put[Len(worker.got) + 1]

\* a record whose prefix wrapped and one whose data wrapped have been returned
PrefixWrapped(n) ==
    LET start == SeqSum([i \in 1..(n - 1) |-> worker.put[i].dataLen + SizeofInt]) % RingLength
    IN  RingLength - start < SizeofInt

DataWrapped(n) ==
    LET start == (SeqSum([i \in 1..n |-> worker.put[i].dataLen + SizeofInt])
                      - worker.put[n].dataLen) % RingLength
    IN  RingLength - start < worker.put[n].dataLen

C36_WrappedRecordsReturned ==
    /\ \E n \in 1..Len(worker.got) : PrefixWrapped(n)
    /\ \E n \in 1..Len(worker.got) : DataWrapped(n)

(***************************************************************************)
(* FairRedist: SpecRedist with every launched worker scheduled again and   *)
(* again.  A worker's step changes the state except in the sleep of the    *)
(* ConsumeDone wait, so the step is enabled where the worker has not left  *)
(* and is not in that sleep.                                               *)
(***************************************************************************)
WorkerStep(w) ==
    \/ ReDistributeInitializeWorker(w)
    \/ FillHashTable(w)
    \/ GetReDistributeBufFile(w)
    \/ GetReDistributeData(w)
    \/ WaitConsumeDone(w)

\* pg_usleep in the wait for peer nDone to reach ConsumeDone
Sleeping(w) ==
    /\ worker[w].pc = "closing"
    /\ worker[w].nDone < rd_state.numLaunchedParallelWorkers
    /\ rd_state.status[worker[w].nDone] < ReDistribute_ConsumeDone
    /\ rd_state.status[worker[w].nDone] > ReDistribute_Error

HasLeft(w) == worker[w].pc \in {"done", "error", "crashed"}

WorkerStepEnabled(w) == w \in Workers /\ ~HasLeft(w) /\ ~Sleeping(w)

\* WF_vars(WorkerStep(w)) for every worker, with ENABLED written out
FairRedist ==
    /\ SpecRedist
    /\ \A w \in 0..(MaxWorkers - 1) :
          []<>~WorkerStepEnabled(w) \/ []<><<w \in Workers /\ WorkerStep(w)>>_vars

ErrorRaised == \E w \in Workers : worker[w].pc \in {"error", "crashed"}

\* a step of worker w's fill loop that took a row for a peer whose ring
\* buffer had no room for it wrote the row to the spool file for that peer
RowSpooledWhenFull(w) ==
    LET numWorkers == rd_state.numLaunchedParallelWorkers
        row == Head(worker[w].child)
        index == w * numWorkers + Destination(row)
    IN  (/\ worker[w].pc = "fill" /\ worker'[w].pc = "fill"
         /\ worker[w].child # <<>>
         /\ worker'[w].child = Tail(worker[w].child)
         /\ Destination(row) # w
         /\ ReDistributeBufferFreeSize(rd_state.buf[index]) < DataLen + SizeofInt)
        => /\ tmpfiles'[index] = Append(tmpfiles[index], row)
           /\ rd_state'.buf[index] = rd_state.buf[index]

ProducersNeverWait == \A w \in Workers : RowSpooledWhenFull(w)

AllConsumeDone == \A w \in Workers : rd_state.status[w] = ReDistribute_ConsumeDone

(***************************************************************************)
(* C37: with every launched worker running and scheduled fairly, either a  *)
(* worker raises an error or every worker reaches ConsumeDone and leaves;  *)
(* a producer that finds the ring buffer full writes the row to the spool  *)
(* file in the same step and goes on, and the waits for ProduceDone and    *)
(* for ConsumeDone all end.                                                *)
(***************************************************************************)
C37_EveryWorkerLeaves ==
    [][ProducersNeverWait]_vars /\ <>(ErrorRaised \/ (AllDone /\ AllConsumeDone))

\* three workers have left without an error, a row having gone through a
\* spool file
C37_ThreeWorkersLeftAfterSpooling ==
    /\ AllDone /\ AllConsumeDone
    /\ rd_state.numLaunchedParallelWorkers = 3
    /\ \E i \in DOMAIN rd_state.ReDistributeData :
          rd_state.ReDistributeData[i] # "InvalidDsaPointer"

(***************************************************************************)
(* The spool files.  tmpfiles[p * numWorkers + w] is what worker p has     *)
(* written for worker w; w opens it when it merges p in                    *)
(* GetReDistributeBufFile and reads it in GetReDistributeData; p closes    *)
(* its files in the step that ends its ConsumeDone wait.                   *)
(***************************************************************************)
\* p has set ConsumeDone: it still has it, or it raised the error of the
\* ConsumeDone wait afterwards
ReachedConsumeDone(p) ==
    \/ rd_state.status[p] = ReDistribute_ConsumeDone
    \/ /\ worker[p].pc = "error"
       /\ worker[p].error = "5970: some other workers exit with errors"

UnreadFrom(w, p) ==
    /\ worker[w].file # "NULL"
    /\ \E n \in 1..Len(worker[w].file) : worker[w].file[n].id[1] = p

\* nobody is before ConsumeDone, or holds unread rows of p, once p has closed
NoReaderOfClosedFile ==
    \A p \in Workers : worker[p].pc = "done" =>
        \A w \in Workers :
            /\ worker[w].pc \notin {"start", "fill", "getfile", "consume"}
            /\ ~UnreadFrom(w, p)

ClosesIn(w) == worker[w].pc = "closing" /\ worker'[w].pc = "done"

CloseAfterAllConsumeDone ==
    \A w \in Workers : ClosesIn(w) => \A p \in Workers : ReachedConsumeDone(p)

MergeAfterProduceDone ==
    \A w \in Workers : \A p \in Workers \ {w} :
        (p \notin worker[w].merged /\ p \in worker'[w].merged)
            => rd_state.status[p] >= ReDistribute_ProduceDone

\* a file a reader has opened and not finished is written no more
MergedFilesStable ==
    \A w \in Workers : \A p \in Workers \ {w} :
        (p \in worker[w].merged /\ worker[w].pc \in {"getfile", "consume"})
            => tmpfiles'[p * rd_state.numLaunchedParallelWorkers + w]
                  = tmpfiles[p * rd_state.numLaunchedParallelWorkers + w]

(***************************************************************************)
(* C38: a worker closes its spool files only when every launched worker    *)
(* has reached ConsumeDone, and merges a peer's spool file only when that  *)
(* peer's status is ProduceDone or later; a file is not written after a    *)
(* reader has opened it and is not closed while a reader has rows of it    *)
(* left to read.                                                           *)
(***************************************************************************)
C38_SpoolFilesReadBetweenWriteAndClose ==
    /\ []NoReaderOfClosedFile
    /\ [][CloseAfterAllConsumeDone /\ MergeAfterProduceDone /\ MergedFilesStable]_vars

\* a worker has closed its files after a peer aggregated two of its rows,
\* one of which came through the spool file
C38_ClosedAfterSpoolFileRead ==
    \E p \in Workers :
        /\ worker[p].pc = "done"
        /\ \E w \in Workers \ {p} :
              /\ rd_state.ReDistributeData[p * rd_state.numLaunchedParallelWorkers + w]
                    # "InvalidDsaPointer"
              /\ Cardinality({n \in 1..Len(worker[w].rows) : worker[w].rows[n].id[1] = p}) >= 2

(***************************************************************************)
(* C39: when a worker runs ReDistributeBufferCheck, at the end of its      *)
(* ConsumeDone wait, every ring buffer it has produced into has            *)
(* head = tail and holds no row, and no worker ever raises 'data left in   *)
(* ReDistributeBuffer'.                                                    *)
(***************************************************************************)
AtBufferCheck(w) ==
    worker[w].pc = "closing" /\ worker[w].nDone >= rd_state.numLaunchedParallelWorkers

ProducedInto(w) ==
    LET numWorkers == rd_state.numLaunchedParallelWorkers
    IN  (w * numWorkers)..(w * numWorkers + numWorkers - 1)

C39_NoDataLeftInBuffers ==
    \A w \in Workers :
        /\ worker[w].error # "data left in ReDistributeBuffer"
        /\ AtBufferCheck(w) =>
              \A i \in ProducedInto(w) :
                  /\ rd_state.buf[i].head = rd_state.buf[i].tail
                  /\ rd_state.buf[i].buffer = <<>>

\* a worker at its check whose buffer to a peer has been filled and emptied
C39_CheckAfterBufferUsed ==
    \E w \in Workers :
        /\ AtBufferCheck(w)
        /\ \E i \in ProducedInto(w) : rd_state.buf[i].head # 0

(***************************************************************************)
(* C40: whenever GetReDistributeData is about to read a record's data from *)
(* the merged spool file, the buffer that receives it has room for the     *)
(* record's dataLen bytes, whatever the kind of record.                    *)
(***************************************************************************)
\* worker w has nothing left in the ring buffers and a record left in the file
ReadsFromFile(w) ==
    /\ worker[w].pc = "consume"
    /\ ReDistributeNextBuffer(rd_state, w, worker[w].index)
          >= rd_state.numLaunchedParallelWorkers
    /\ worker[w].file # "NULL"
    /\ worker[w].file # <<>>

C40_PayloadBufferHoldsRecord ==
    \A w \in Workers :
        ReadsFromFile(w) =>
            PayloadCapacity(worker[w].dataType, SizeofInt, DataLen) >= DataLen

\* the same for datarows only
C40_DataRowBufferHoldsRecord ==
    \A w \in Workers :
        (ReadsFromFile(w) /\ worker[w].dataType = "DT_DataRow") =>
            PayloadCapacity(worker[w].dataType, SizeofInt, DataLen) >= DataLen

C40_DataRowReadFromFile ==
    \E w \in Workers : ReadsFromFile(w) /\ worker[w].dataType = "DT_DataRow"
====
